---- MODULE Spec2Model ----
\* Verification model of proxy-ai-fusion: the health-tracking load balancer
\* (routing/load_balancer.rs), the proxy forwarder (main.rs, proxy_service.rs),
\* the real-time hub (realtime/realtime_hub.rs) and the request ledger
\* (logging/request_logger.rs).
EXTENDS Integers, Sequences, FiniteSets, TLC

\* ---------------------------------------------------------------------------
\* Bounds of the model
\* ---------------------------------------------------------------------------

\* Largest failure_threshold a state file is drawn with.
MaxThreshold == 2

\* Largest auto_reset_minutes a state file is drawn with.
MaxResetMinutes == 1

\* The wall clock stops advancing at this many seconds.
MaxNow == 60

\* No failure is recorded for an upstream whose count reached this value.
MaxFailures == 3

\* Largest number of request_streaming calls made for one request.
MaxProgress == 1

\* Largest number of rows inserted into the ledger.
MaxInserts == 4

\* Ledger timestamps are drawn from 1..MaxStamp.
MaxStamp == 2

\* Largest number of header lines of a request or a response.
MaxHeaders == 2

\* Largest number of lines of a server-sent-events body.
MaxLines == 2

\* Largest number of live messages a lagging connection's socket accepts.
MaxSent == 2

\* Largest number of record_result calls one forwarder makes.
MaxRecords == 2

\* Largest number of characters of a string handed to limit_string.
MaxChars == 3

\* Largest byte limit handed to limit_string.
MaxLimit == 4

\* ---------------------------------------------------------------------------
\* Program constants
\* ---------------------------------------------------------------------------

\* apply_auto_reset: reset_duration = auto_reset_minutes * 60.0
SecondsPerMinute == 60

\* ServiceLBConfig::default
DefaultFailureThreshold == 3

DefaultAutoResetMinutes == 10

\* ---------------------------------------------------------------------------
\* Value domains
\* ---------------------------------------------------------------------------

\* Service families (LoadBalancerConfig::default inserts both).
Services == {"claude", "codex"}

\* Upstream names, in String::cmp order.
NameSeq == <<"A", "B">>

Names == {NameSeq[i] : i \in 1..Len(NameSeq)}

\* Position of a name in String::cmp order.
NameRank(n) == CHOOSE i \in 1..Len(NameSeq) : NameSeq[i] = n

\* Weights in units of 0.5 (1 is 0.5, 2 is 1.0).
Weights == {1, 2}

\* The pools handed to select: every map from a set of names to weights.
Pools == UNION {[S -> Weights] : S \in SUBSET Names}

\* Calendar dates: 0 is yesterday, 1 the day the process starts, 2 the next.
Dates == 0..2

\* Steps by which the wall clock advances, in seconds.
ClockSteps == {30}

Modes == {"active-first", "weight-based"}

\* ---------------------------------------------------------------------------
\* Maps (HashMap<String, _>) as functions over their key set
\* ---------------------------------------------------------------------------

EmptyMap == [k \in {} |-> 0]

MapInsert(m, k, v) == [x \in (DOMAIN m) \cup {k} |-> IF x = k THEN v ELSE m[x]]

MapRemove(m, k) == [x \in (DOMAIN m) \ {k} |-> m[x]]

Range(s) == {s[i] : i \in 1..Len(s)}

\* Vec::retain(|x| x != k)
Retain(s, k) == SelectSeq(s, LAMBDA x : x # k)

\* ---------------------------------------------------------------------------
\* Balancer (routing/load_balancer.rs)
\* ---------------------------------------------------------------------------

VARIABLES
    lb,          \* LoadBalancer.config: [mode, services]
    lbFile,      \* content of lb_config.toml
    fileNewer,   \* mtime of lb_config.toml > LoadBalancer.last_modified
    now,         \* SystemTime::now(), seconds
    today,       \* Utc::now().date_naive()
    lastCall,    \* the balancer call that produced the current state
    streak,      \* per service and name: failure records since the last success
    streakAt,    \* per service and name: time the streak reached the threshold
    lbPeer       \* the LoadBalancer of the other ProxyService: [config, newer]

lbVars == <<lb, lbFile, fileNewer, now, today, lastCall, streak, streakAt, lbPeer>>

VARIABLES
    cfgConfigs,  \* ConfigManager.configs of the service: name -> weight
    cfgActive,   \* ConfigManager.active_config_name, NoName when None
    pc,          \* per request: the await point proxy_handler stands at
    sel,         \* per request: the name select_config returned
    outcome,     \* per request: what handle_request returned
    recorded,    \* per request: the record_result calls made, in order
    cfgFile,     \* the service's config file: name -> [weight, active]
    attempts,    \* per request: balancer selections and outbound dispatches made
    returned     \* per request: the response the client received

fwdVars ==
    <<cfgConfigs, cfgActive, pc, sel, outcome, recorded, cfgFile, attempts, returned>>

VARIABLES
    hubTable,    \* RealTimeHub.active_requests: request_id -> entry
    hubEvents,   \* every event sent on RealTimeHub.event_tx, in order
    hubTimers,   \* request id -> the instant its sleeping removal task wakes
    sub          \* per WebSocket connection: phase, rx queue, messages sent

hubVars == <<hubTable, hubEvents, hubTimers, sub>>

VARIABLES
    logRows,     \* rows of table request_logs
    logMax,      \* RequestLogger.max_logs
    logPc,       \* per ledger writer: between insert and maintain_log_limit
    logInserted, \* number of rows ever inserted
    logEvicted,  \* rows maintain_log_limit has deleted
    logList      \* result of the last get_logs call

logVars == <<logRows, logMax, logPc, logInserted, logEvicted, logList>>

VARIABLES
    arg,         \* the input a function or a store call is applied to
    res          \* its result

pureVars == <<arg, res>>

vars == <<lbVars, fwdVars, hubVars, logVars, pureVars>>

\* res before the function ran, and once it returned value
NotApplied == [applied |-> FALSE, value |-> <<>>]

Applied(value) == [applied |-> TRUE, value |-> value]

\* ServiceLBConfig
ServiceLBConfig(threshold, minutes, disabled) ==
    [failure_threshold |-> threshold,
     auto_reset_minutes |-> minutes,
     current_failures |-> EmptyMap,
     excluded_configs |-> <<>>,
     excluded_timestamps |-> EmptyMap,
     manual_disabled_until |-> disabled]

ServiceLBConfigDefault ==
    ServiceLBConfig(DefaultFailureThreshold, DefaultAutoResetMinutes, EmptyMap)

\* check_and_reload: reload when the file's mtime advanced
check_and_reload(config) == IF fileNewer THEN lbFile ELSE config

\* "ensure the service config exists" of select_config and record_result
EnsureService(config, service) ==
    IF service \in DOMAIN config.services
    THEN config
    ELSE [config EXCEPT !.services = MapInsert(@, service, ServiceLBConfigDefault)]

\* apply_auto_reset resetting only after more than the reset duration
apply_auto_reset_strict(sc, t) ==
    IF sc.auto_reset_minutes = 0
    THEN sc
    ELSE LET reset_duration == sc.auto_reset_minutes * SecondsPerMinute
             to_reset == {n \in Range(sc.excluded_configs) :
                            /\ n \in DOMAIN sc.excluded_timestamps
                            /\ t - sc.excluded_timestamps[n] > reset_duration}
         IN [sc EXCEPT
               !.excluded_configs = SelectSeq(@, LAMBDA x : x \notin to_reset),
               !.excluded_timestamps = [n \in (DOMAIN @) \ to_reset |-> @[n]],
               !.current_failures = [n \in (DOMAIN @) \cup to_reset |->
                                        IF n \in to_reset THEN 0 ELSE @[n]]]

\* apply_auto_reset without the early return for auto_reset_minutes = 0
apply_auto_reset_ZeroSweeps(sc, t) ==
    LET reset_duration == sc.auto_reset_minutes * SecondsPerMinute
        to_reset == {n \in Range(sc.excluded_configs) :
                       /\ n \in DOMAIN sc.excluded_timestamps
                       /\ t - sc.excluded_timestamps[n] >= reset_duration}
    IN [sc EXCEPT
          !.excluded_configs = SelectSeq(@, LAMBDA x : x \notin to_reset),
          !.excluded_timestamps = [n \in (DOMAIN @) \ to_reset |-> @[n]],
          !.current_failures = [n \in (DOMAIN @) \cup to_reset |->
                                   IF n \in to_reset THEN 0 ELSE @[n]]]

\* apply_auto_reset leaving the timestamp of a reset upstream behind
apply_auto_reset_KeepStamp(sc, t) ==
    IF sc.auto_reset_minutes = 0
    THEN sc
    ELSE LET reset_duration == sc.auto_reset_minutes * SecondsPerMinute
             to_reset == {n \in Range(sc.excluded_configs) :
                            /\ n \in DOMAIN sc.excluded_timestamps
                            /\ t - sc.excluded_timestamps[n] >= reset_duration}
         IN [sc EXCEPT
               !.excluded_configs = SelectSeq(@, LAMBDA x : x \notin to_reset),
               !.current_failures = [n \in (DOMAIN @) \cup to_reset |->
                                        IF n \in to_reset THEN 0 ELSE @[n]]]

apply_auto_reset(sc, t) ==
    IF sc.auto_reset_minutes = 0
    THEN sc
    ELSE LET reset_duration == sc.auto_reset_minutes * SecondsPerMinute
             to_reset == {n \in Range(sc.excluded_configs) :
                            /\ n \in DOMAIN sc.excluded_timestamps
                            /\ t - sc.excluded_timestamps[n] >= reset_duration}
         IN [sc EXCEPT
               !.excluded_configs = SelectSeq(@, LAMBDA x : x \notin to_reset),
               !.excluded_timestamps = [n \in (DOMAIN @) \ to_reset |-> @[n]],
               !.current_failures = [n \in (DOMAIN @) \cup to_reset |->
                                        IF n \in to_reset THEN 0 ELSE @[n]]]

\* cleanup_manual_disabled dropping only the entries of past days
cleanup_manual_disabled_KeepFuture(sc, date) ==
    [sc EXCEPT !.manual_disabled_until =
        [n \in {k \in DOMAIN @ : @[k] >= date} |-> @[n]]]

cleanup_manual_disabled(sc, date) ==
    [sc EXCEPT !.manual_disabled_until =
        [n \in {k \in DOMAIN @ : @[k] = date} |-> @[n]]]

\* comparator breaking ties on the name descending
SortsBefore_NameDesc(configs, a, b) ==
    \/ configs[a] > configs[b]
    \/ configs[a] = configs[b] /\ NameRank(a) > NameRank(b)

\* comparator of sorted_configs.sort_by: weight descending, then name ascending
SortsBefore(configs, a, b) ==
    \/ configs[a] > configs[b]
    \/ configs[a] = configs[b] /\ NameRank(a) < NameRank(b)

RECURSIVE SortConfigs(_, _)
SortConfigs(configs, rest) ==
    IF rest = {}
    THEN <<>>
    ELSE LET first == CHOOSE a \in rest :
                         \A b \in rest \ {a} : SortsBefore(configs, a, b)
         IN <<first>> \o SortConfigs(configs, rest \ {first})

sorted_configs(configs) == SortConfigs(configs, DOMAIN configs)

\* the three "continue" tests of the scan in select_weighted_config
Skipped(sc, name, date) ==
    \/ /\ name \in DOMAIN sc.current_failures
       /\ sc.current_failures[name] >= sc.failure_threshold
    \/ name \in Range(sc.excluded_configs)
    \/ /\ name \in DOMAIN sc.manual_disabled_until
       /\ sc.manual_disabled_until[name] = date

\* select_weighted_config falling back on the first name of the pool
select_weighted_config_FirstName(active_config, configs, sc, date) ==
    IF DOMAIN configs = {}
    THEN active_config
    ELSE LET sorted == sorted_configs(configs)
             usable == SelectSeq(sorted, LAMBDA n : ~Skipped(sc, n, date))
         IN IF usable # <<>> THEN Head(usable)
            ELSE IF active_config \in DOMAIN configs THEN active_config
            ELSE CHOOSE n \in DOMAIN configs :
                    \A m \in DOMAIN configs : NameRank(n) <= NameRank(m)

select_weighted_config(active_config, configs, sc, date) ==
    IF DOMAIN configs = {}
    THEN active_config
    ELSE LET sorted == sorted_configs(configs)
             usable == SelectSeq(sorted, LAMBDA n : ~Skipped(sc, n, date))
         IN IF usable # <<>> THEN Head(usable)
            ELSE IF active_config \in DOMAIN configs THEN active_config
            ELSE Head(sorted)

\* record_result excluding only above the threshold
RecordOutcome_LateExclude(sc, config_name, success, t) ==
    IF success
    THEN [sc EXCEPT
            !.current_failures = MapInsert(@, config_name, 0),
            !.excluded_configs = Retain(@, config_name),
            !.excluded_timestamps = MapRemove(@, config_name)]
    ELSE LET failures == IF config_name \in DOMAIN sc.current_failures
                         THEN sc.current_failures[config_name] + 1
                         ELSE 1
             exclude == /\ failures > sc.failure_threshold
                        /\ config_name \notin Range(sc.excluded_configs)
         IN [sc EXCEPT
               !.current_failures = MapInsert(@, config_name, failures),
               !.excluded_configs = IF exclude THEN Append(@, config_name) ELSE @,
               !.excluded_timestamps = IF exclude THEN MapInsert(@, config_name, t) ELSE @]

\* record_result whose success clears every exclusion of the service
RecordOutcome_ClearAll(sc, config_name, success, t) ==
    IF success
    THEN [sc EXCEPT
            !.current_failures = [n \in (DOMAIN @) \cup {config_name} |-> 0],
            !.excluded_configs = <<>>,
            !.excluded_timestamps = EmptyMap]
    ELSE LET failures == IF config_name \in DOMAIN sc.current_failures
                         THEN sc.current_failures[config_name] + 1
                         ELSE 1
             exclude == /\ failures >= sc.failure_threshold
                        /\ config_name \notin Range(sc.excluded_configs)
         IN [sc EXCEPT
               !.current_failures = MapInsert(@, config_name, failures),
               !.excluded_configs = IF exclude THEN Append(@, config_name) ELSE @,
               !.excluded_timestamps = IF exclude THEN MapInsert(@, config_name, t) ELSE @]

\* the state update of record_result on one service config
RecordOutcome(sc, config_name, success, t) ==
    IF success
    THEN [sc EXCEPT
            !.current_failures = MapInsert(@, config_name, 0),
            !.excluded_configs = Retain(@, config_name),
            !.excluded_timestamps = MapRemove(@, config_name)]
    ELSE LET failures == IF config_name \in DOMAIN sc.current_failures
                         THEN sc.current_failures[config_name] + 1
                         ELSE 1
             exclude == /\ failures >= sc.failure_threshold
                        /\ config_name \notin Range(sc.excluded_configs)
         IN [sc EXCEPT
               !.current_failures = MapInsert(@, config_name, failures),
               !.excluded_configs = IF exclude THEN Append(@, config_name) ELSE @,
               !.excluded_timestamps = IF exclude THEN MapInsert(@, config_name, t) ELSE @]

\* the sweeps both entry points run before acting
Swept(config, service) ==
    LET ensured == EnsureService(config, service)
    IN [ensured EXCEPT !.services[service] =
          cleanup_manual_disabled(apply_auto_reset(@, now), today)]

\* The contract's own count of consecutive failures: a streak that reached the
\* threshold ends when auto_reset_minutes have elapsed at the time of a call.
Elapsed(service, n) ==
    /\ lb.services[service].auto_reset_minutes > 0
    /\ streak[service][n] >= lb.services[service].failure_threshold
    /\ now >= streakAt[service][n]
                + lb.services[service].auto_reset_minutes * SecondsPerMinute

StreakAtCall(service) ==
    [n \in Names |-> IF Elapsed(service, n) THEN 0 ELSE streak[service][n]]

\* the time a streak reached the threshold, kept only while the streak lasts
StreakTimes(counts, times, service) ==
    [n \in Names |-> IF counts[n] >= lb.services[service].failure_threshold
                     THEN times[n] ELSE 0]

NoCall == [op |-> "none", service |-> "", name |-> "", configs |-> EmptyMap,
           success |-> FALSE, result |-> ""]

\* current_failures.get(name), 0 when absent
FailureCount(config, service, name) ==
    IF name \in DOMAIN config.services[service].current_failures
    THEN config.services[service].current_failures[name]
    ELSE 0

\* dispatch that consults the health state in every mode
SelectByMode_Weighted(config, service, active_config, configs) ==
    select_weighted_config(active_config, configs,
                           config.services[service], today)

\* the dispatch on the mode at the end of select_config
SelectByMode(config, service, active_config, configs) ==
    IF config.mode = "active-first"
    THEN active_config
    ELSE select_weighted_config(active_config, configs,
                                config.services[service], today)

\* LoadBalancer::select_config
SelectConfig(service, active_config, configs) ==
    /\ lastCall = NoCall
    /\ LET config == Swept(check_and_reload(lb), service)
           result == SelectByMode(config, service, active_config, configs)
       IN /\ lb' = config
          /\ lastCall' = [op |-> "select", service |-> service,
                          name |-> active_config, configs |-> configs,
                          success |-> FALSE, result |-> result]
    /\ fileNewer' = FALSE
    /\ streak' = [streak EXCEPT ![service] = StreakAtCall(service)]
    /\ streakAt' = [streakAt EXCEPT ![service] = StreakTimes(streak'[service], @, service)]
    /\ UNCHANGED <<lbFile, now, today, lbPeer>>

\* LoadBalancer::record_result, save_config included
RecordResultSaving(service, config_name, success, saved) ==
    /\ lastCall = NoCall
    /\ success \/ FailureCount(lb, service, config_name) < MaxFailures
    /\ LET swept == Swept(check_and_reload(lb), service)
           config == [swept EXCEPT !.services[service] =
                         RecordOutcome(@, config_name, success, now)]
           before == StreakAtCall(service)[config_name]
           after == IF success THEN 0 ELSE before + 1
       IN /\ lb' = config
          /\ lbFile' = IF saved THEN config ELSE lbFile
          /\ streak' = [streak EXCEPT ![service] =
                           [StreakAtCall(service) EXCEPT ![config_name] = after]]
          /\ streakAt' = [streakAt EXCEPT ![service] =
                StreakTimes(streak'[service],
                            IF after = config.services[service].failure_threshold
                            THEN [@ EXCEPT ![config_name] = now] ELSE @,
                            service)]
    /\ lastCall' = [op |-> "record", service |-> service, name |-> config_name,
                    configs |-> EmptyMap, success |-> success, result |-> ""]
    /\ fileNewer' = FALSE
    /\ lbPeer' = [lbPeer EXCEPT !.newer = @ \/ saved]
    /\ UNCHANGED <<now, today>>

\* record_result whose save_config succeeds
RecordResult(service, config_name, success) ==
    RecordResultSaving(service, config_name, success, TRUE)

\* the wall clock advances; midnight may pass
Tick(step, midnight) ==
    /\ lastCall = NoCall
    /\ now + step <= MaxNow
    /\ now' = now + step
    /\ today' = IF midnight /\ today + 1 \in Dates THEN today + 1 ELSE today
    /\ UNCHANGED <<lb, lbFile, fileNewer, lastCall, streak, streakAt, lbPeer>>

\* the caller takes the result of the call
Return ==
    /\ lastCall # NoCall
    /\ lastCall' = NoCall
    /\ UNCHANGED <<lb, lbFile, fileNewer, now, today, streak, streakAt, lbPeer>>

\* ---------------------------------------------------------------------------
\* Real-time hub (realtime/realtime_hub.rs)
\* ---------------------------------------------------------------------------

\* request ids (uuid v4, one per request)
Requests == {"r1", "r2"}

\* WebSocket connections
Subs == {"w1"}

\* cleanup_old_requests keeps the 100 most recent entries
HubCap == 100

\* the delay of the removal task request_completed spawns, seconds
RemovalDelay == 30

\* RealTimeRequest: status, status_code (0 when None), start_time
RealTimeRequest(t) == [status |-> "PENDING", status_code |-> 0, start_time |-> t]

\* Event: the serde tag, the request id, the status code (0 when the variant has none)
Event(type, request_id, status_code) ==
    [type |-> type, request_id |-> request_id, status_code |-> status_code]

\* active_requests.read() is held: some connection is inside send_snapshot,
\* so every active_requests.write().await waits
ReadLocked == \E s \in DOMAIN sub : sub[s].phase = "snapshotting"

\* broadcast::channel(1000): the values the channel retains for a receiver
ChannelCapacity == 1000

\* RecvError::Lagged, the result of the next recv() of a receiver whose
\* oldest unread value was overwritten
Lagged == [type |-> "Lagged", request_id |-> "", status_code |-> 0]

\* the values a receiver has not read yet
Unread(rx) == IF Len(rx) > 0 /\ Head(rx) = Lagged THEN Tail(rx) ELSE rx

\* a receiver's queue after a send: a full channel overwrites the oldest
\* value, and the receiver that had not read it will get Lagged first and
\* the oldest retained value after that
Enqueue(rx, e) ==
    IF Len(Unread(rx)) < ChannelCapacity
    THEN Append(rx, e)
    ELSE <<Lagged>> \o Append(Tail(Unread(rx)), e)

\* broadcast::Sender::send: every receiver that exists gets the event
Broadcast(e) ==
    /\ hubEvents' = Append(hubEvents, e)
    /\ sub' = [s \in Subs |->
                  IF sub[s].phase \in {"subscribed", "snapshotting", "live"}
                  THEN [sub[s] EXCEPT !.rx = Enqueue(@, e)]
                  ELSE sub[s]]

RECURSIVE DropOldest(_, _)
\* the tables left when the `extra` entries that sort last by start_time
\* descending are removed; entries of equal start_time sort in the
\* HashMap's iteration order, so any of them can be the one removed
DropOldest(table, extra) ==
    IF extra = 0
    THEN {table}
    ELSE UNION {DropOldest(MapRemove(table, d), extra - 1) :
                  d \in {k \in DOMAIN table :
                           \A j \in DOMAIN table :
                              table[k].start_time <= table[j].start_time}}

\* a cleanup that removes the most recent entry
cleanup_old_requests_KeepOldest(table) ==
    IF Cardinality(DOMAIN table) > HubCap
    THEN {MapRemove(table, d) :
            d \in {k \in DOMAIN table :
                     \A j \in DOMAIN table :
                        table[k].start_time >= table[j].start_time}}
    ELSE {table}

\* RealTimeHub::cleanup_old_requests: the tables it can leave
cleanup_old_requests(table) ==
    IF Cardinality(DOMAIN table) > HubCap
    THEN DropOldest(table, Cardinality(DOMAIN table) - HubCap)
    ELSE {table}

\* RealTimeHub::request_started up to the insert
request_started_insert(request_id) ==
    /\ ~ReadLocked
    /\ hubTable' = MapInsert(hubTable, request_id, RealTimeRequest(now))
    /\ UNCHANGED <<hubEvents, hubTimers, sub>>

\* RealTimeHub::request_started from the send on; the step is over when
\* cleanup_old_requests has got the write lock
request_started_emit(request_id) ==
    /\ ~ReadLocked
    /\ Broadcast(Event("started", request_id, 0))
    /\ hubTable' \in cleanup_old_requests(hubTable)
    /\ UNCHANGED hubTimers

\* RealTimeHub::request_streaming
request_streaming(request_id) ==
    /\ ~ReadLocked
    /\ hubTable' = IF request_id \in DOMAIN hubTable
                   THEN [hubTable EXCEPT ![request_id].status = "STREAMING"]
                   ELSE hubTable
    /\ Broadcast(Event("progress", request_id, 0))
    /\ UNCHANGED hubTimers

\* RealTimeHub::request_completed
request_completed(request_id, status_code, success) ==
    /\ ~ReadLocked
    /\ hubTable' = IF request_id \in DOMAIN hubTable
                   THEN [hubTable EXCEPT
                            ![request_id].status =
                                IF success THEN "COMPLETED" ELSE "FAILED",
                            ![request_id].status_code = status_code]
                   ELSE hubTable
    /\ Broadcast(Event(IF success THEN "completed" ELSE "failed",
                       request_id, status_code))
    /\ hubTimers' = MapInsert(hubTimers, request_id, now + RemovalDelay)

\* the task request_completed spawns: sleep 30 s, then remove the entry
RemoveAfterDelay(request_id) ==
    /\ request_id \in DOMAIN hubTimers
    /\ now >= hubTimers[request_id]
    /\ ~ReadLocked
    /\ hubTable' = MapRemove(hubTable, request_id)
    /\ hubTimers' = MapRemove(hubTimers, request_id)
    /\ UNCHANGED <<hubEvents, sub>>

\* a WebSocket connection before handle_connection runs
\* (end: the exit handle_connection took, "none" while it runs)
NoConnection ==
    [phase |-> "none", rx |-> <<>>, sent |-> <<>>, attached |-> {}, end |-> "none"]

\* a message written to the socket: the event and the part of
\* handle_connection that wrote it
Message(from, event) == [from |-> from, event |-> event]

\* the orders a HashMap's values can be iterated in
Orders(S) == {o \in [1..Cardinality(S) -> S] :
                 \A i, j \in 1..Cardinality(S) : i # j => o[i] # o[j]}

\* RealTimeHub::handle_connection: event_tx.subscribe()
Subscribe(s) ==
    /\ sub[s].phase = "none"
    /\ sub' = [sub EXCEPT ![s].phase = "subscribed"]
    /\ UNCHANGED <<hubTable, hubEvents, hubTimers>>

\* the entries send_snapshot reports
SnapshotEntries_Pending(table) == {k \in DOMAIN table : table[k].status = "PENDING"}

SnapshotEntries(table) == DOMAIN table

\* RealTimeHub::send_snapshot takes the read lock (writers hold the lock
\* within one step, so it is free) and has a message to send
SnapshotLock(s) ==
    /\ sub[s].phase = "subscribed"
    /\ DOMAIN hubTable # {}
    /\ sub' = [sub EXCEPT ![s].phase = "snapshotting"]
    /\ UNCHANGED <<hubTable, hubEvents, hubTimers>>

\* RealTimeHub::send_snapshot under the read lock: the socket has taken the
\* messages, or a send failed, and the lock is released; a failed send ends
\* the connection. With an empty table nothing is sent and the lock is
\* released at once.
SendSnapshot(s, ok) ==
    /\ \/ sub[s].phase = "snapshotting"
       \/ sub[s].phase = "subscribed" /\ DOMAIN hubTable = {}
    /\ \E o \in Orders(SnapshotEntries(hubTable)) :
          LET events == [i \in 1..Len(o) |->
                            Message("snapshot", Event("started", o[i], 0))]
          IN IF ok
             THEN sub' = [sub EXCEPT
                     ![s].phase = "live",
                     ![s].sent = @ \o events,
                     ![s].attached = {k \in DOMAIN hubTable :
                         hubTable[k].status \in {"PENDING", "STREAMING"}}]
             ELSE /\ Len(o) > 0
                  /\ \E n \in 0..(Len(o) - 1) :
                        sub' = [sub EXCEPT ![s].phase = "closed",
                                           ![s].end = "send",
                                           ![s].rx = <<>>,
                                           ![s].sent = @ \o SubSeq(events, 1, n)]
    /\ UNCHANGED <<hubTable, hubEvents, hubTimers>>

\* the phases in which send_task forwards events
Forwarding_BeforeSnapshot == {"subscribed", "snapshotting", "live"}

Forwarding == {"live"}

\* send_task: rx.recv() returns Ok(event), then sender.send; a failed send
\* ends the connection
Deliver(s, ok) ==
    /\ sub[s].phase \in Forwarding
    /\ Len(sub[s].rx) > 0
    /\ Head(sub[s].rx) # Lagged
    /\ sub' = [sub EXCEPT
          ![s].phase = IF ok THEN @ ELSE "closed",
          ![s].end = IF ok THEN @ ELSE "send",
          ![s].rx = IF ok THEN Tail(@) ELSE <<>>,
          ![s].sent = IF ok THEN Append(@, Message("live", Head(sub[s].rx))) ELSE @]
    /\ UNCHANGED <<hubTable, hubEvents, hubTimers>>

\* send_task: rx.recv() returns Err(Lagged), which ends the `while let Ok`
\* loop and with it the connection
RecvLagged(s) ==
    /\ sub[s].phase \in Forwarding
    /\ Len(sub[s].rx) > 0
    /\ Head(sub[s].rx) = Lagged
    /\ sub' = [sub EXCEPT ![s].phase = "closed", ![s].end = "lagged", ![s].rx = <<>>]
    /\ UNCHANGED <<hubTable, hubEvents, hubTimers>>

\* recv_task ends (Close frame or socket error); send_task is aborted
Close(s) ==
    /\ sub[s].phase = "live"
    /\ sub' = [sub EXCEPT ![s].phase = "closed", ![s].end = "peer", ![s].rx = <<>>]
    /\ UNCHANGED <<hubTable, hubEvents, hubTimers>>

\* ---------------------------------------------------------------------------
\* Request ledger (logging/request_logger.rs)
\* ---------------------------------------------------------------------------

\* RequestLogger::new: max_logs
DefaultMaxLogs == 50

\* callers of log_request: proxy_handler and the connectivity self-test
LogWriters == {"proxy", "config-test"}

\* the values max_logs is configured with (set_max_logs)
LedgerMaxes == {1, 3}

\* (limit, offset) pairs get_logs is called with
LogPages == {<<10, 0>>}

\* RequestLog as stored: id, timestamp (to_rfc3339 text sorts as the instant
\* does), status_code, channel, and whether request_body / response_body are non-NULL.
\* proxy_handler stores no body and no usage; the self-test stores the bodies.
RequestLog(id, timestamp, writer, status) ==
    [id |-> id, timestamp |-> timestamp, status_code |-> status,
     channel |-> IF writer = "proxy" THEN "claude" ELSE "config-test:A",
     request_body |-> writer # "proxy"]

\* RequestLogger::log_request up to drop(db): the INSERT
log_request_insert(log) ==
    /\ logRows' = logRows \cup {log}
    /\ logInserted' = logInserted + 1
    /\ UNCHANGED <<logMax, logEvicted, logList>>

\* the rows DELETE ... ORDER BY timestamp ASC LIMIT n may remove
Oldest(rows, n) ==
    {D \in SUBSET rows :
        /\ Cardinality(D) = n
        /\ \A d \in D, k \in rows \ D : d.timestamp <= k.timestamp}

\* maintain_log_limit never deleting
maintain_log_limit_Never ==
    UNCHANGED <<logRows, logMax, logInserted, logEvicted, logList>>

\* RequestLogger::maintain_log_limit
maintain_log_limit ==
    LET count == Cardinality(logRows)
    IN IF count > logMax
       THEN \E D \in Oldest(logRows, count - logMax) :
               /\ logRows' = logRows \ D
               /\ logEvicted' = logEvicted \cup D
               /\ UNCHANGED <<logMax, logInserted, logList>>
       ELSE UNCHANGED <<logRows, logMax, logInserted, logEvicted, logList>>

\* the orders ORDER BY timestamp DESC can produce
RECURSIVE NewestFirst(_)
NewestFirst(rows) ==
    IF rows = {}
    THEN {<<>>}
    ELSE UNION {{<<m>> \o t : t \in NewestFirst(rows \ {m})} :
                  m \in {x \in rows : \A y \in rows : x.timestamp >= y.timestamp}}

\* LIMIT ?1 OFFSET ?2
Page(ordered, limit, offset) ==
    SubSeq(ordered, offset + 1,
           IF offset + limit < Len(ordered) THEN offset + limit ELSE Len(ordered))

\* the row closure of get_logs: columns 10 and 11 (request_body,
\* response_body) are read as Option<i64>, which fails on TEXT
RowReadable(row) == ~row.request_body

\* logList before any get_logs call
NoList == [called |-> FALSE, ok |-> FALSE, rows |-> <<>>, limit |-> 0, offset |-> 0]

\* RequestLogger::get_logs
get_logs(limit, offset) ==
    /\ \E ordered \in NewestFirst(logRows) :
          LET page == Page(ordered, limit, offset)
              ok == \A i \in 1..Len(page) : RowReadable(page[i])
          IN logList' = [called |-> TRUE, ok |-> ok,
                         rows |-> IF ok THEN page ELSE <<>>,
                         limit |-> limit, offset |-> offset]
    /\ UNCHANGED <<logRows, logMax, logInserted, logEvicted>>

\* a caller of log_request runs the INSERT
LogInsert(w, timestamp) ==
    /\ logPc[w] = "idle"
    /\ logInserted < MaxInserts
    /\ log_request_insert(RequestLog(logInserted + 1, timestamp, w, 200))
    /\ logPc' = [logPc EXCEPT ![w] = "trim"]

\* the caller takes the lock again and runs maintain_log_limit
LogTrim(w) ==
    /\ logPc[w] = "trim"
    /\ maintain_log_limit
    /\ logPc' = [logPc EXCEPT ![w] = "idle"]

\* list_logs_handler
GetLogs(limit, offset) ==
    /\ get_logs(limit, offset)
    /\ UNCHANGED logPc

\* ---------------------------------------------------------------------------
\* Forwarder (main.rs proxy_handler, proxy/proxy_service.rs)
\* ---------------------------------------------------------------------------

\* Option<String>::None for a config name
NoName == ""

\* the ConfigManager states the forwarder runs against: no upstream at all,
\* an upstream but none active, and two upstreams with "A" active
ConfigStores ==
    {[configs |-> EmptyMap, active |-> NoName],
     [configs |-> [k \in {"A"} |-> 2], active |-> NoName],
     [configs |-> [k \in Names |-> IF k = "A" THEN 2 ELSE 1], active |-> "A"],
     [configs |-> [k \in Names |-> IF k = "A" THEN 1 ELSE 2], active |-> "A"]}

\* Result<Response, ProxyError> of handle_request
Responded(status) == [kind |-> "response", status |-> status]

Failed(kind) == [kind |-> kind, status |-> 0]

NoOutcome == [kind |-> "none", status |-> 0]

\* what the upstream call can end in: a response, a connect or transport
\* error, the 300 s timeout
UpstreamOutcomes ==
    {Responded(200), Responded(500), Failed("NetworkError"), Failed("TimeoutError")}

\* proxy_handler: response.as_ref().map(|r| r.status().as_u16()).unwrap_or(500)
status_code(o) == IF o.kind = "response" THEN o.status ELSE 500

\* proxy_handler: success = status_code >= 200 && status_code < 400
success(o) == status_code(o) >= 200 /\ status_code(o) < 400

\* a rendering that answers every gateway failure with 502
into_response_BadGateway(o) ==
    IF o.kind = "response" THEN o.status
    ELSE IF o.kind \in {"NetworkError", "TimeoutError"} THEN 502
    ELSE 500

\* the status the client receives: the upstream's on a response,
\* ProxyError::into_response on an error
into_response(o) ==
    IF o.kind = "response" THEN o.status
    ELSE IF o.kind = "NetworkError" THEN 502
    ELSE IF o.kind = "TimeoutError" THEN 504
    ELSE 500

\* no response yet
NoResponse == [error |-> "none", status |-> 0]

\* what the client receives when the handler returns o: the response, or
\* the rendering of the error by ProxyError::into_response
ClientResponse(o) ==
    [error |-> IF o.kind = "response" THEN "none" ELSE o.kind,
     status |-> into_response(o)]

\* a handler that returns the ledger's error to the client
Returns_LedgerError(response, logged) ==
    IF logged THEN response ELSE Failed("DatabaseError")

\* the tail of proxy_handler: a log_request error is logged and `response`
\* is returned
Returns(response, logged) == response

\* to_bytes(body).await: an unreadable body returns InternalError at once
ReadBody(r, ok) ==
    /\ pc[r] = "body"
    /\ pc' = [pc EXCEPT ![r] = IF ok THEN "start" ELSE "rejected"]
    /\ returned' = [returned EXCEPT ![r] =
                       IF ok THEN @ ELSE ClientResponse(Failed("InternalError"))]
    /\ UNCHANGED <<cfgConfigs, cfgActive, cfgFile, sel, outcome, recorded, attempts>>
    /\ UNCHANGED <<lbVars, hubVars, logVars, pureVars>>

\* realtime_hub.request_started(..).await, the insert
Started(r) ==
    /\ pc[r] = "start"
    /\ request_started_insert(r)
    /\ pc' = [pc EXCEPT ![r] = "emit"]
    /\ UNCHANGED <<cfgConfigs, cfgActive, cfgFile, sel, outcome, recorded, attempts, returned>>
    /\ UNCHANGED <<lbVars, logVars, pureVars>>

\* realtime_hub.request_started(..).await, the event and the cleanup
StartedEmit(r) ==
    /\ pc[r] = "emit"
    /\ request_started_emit(r)
    /\ pc' = [pc EXCEPT ![r] = "select"]
    /\ UNCHANGED <<cfgConfigs, cfgActive, cfgFile, sel, outcome, recorded, attempts, returned>>
    /\ UNCHANGED <<lbVars, logVars, pureVars>>

\* ProxyService::select_config at the head of handle_request
Select(r) ==
    /\ pc[r] = "select"
    /\ IF cfgActive = NoName
       THEN /\ outcome' = [outcome EXCEPT ![r] = Failed("ConfigurationError")]
            /\ pc' = [pc EXCEPT ![r] = "record"]
            /\ UNCHANGED <<sel, attempts, lbVars>>
       ELSE /\ SelectConfig("claude", cfgActive, cfgConfigs)
            /\ sel' = [sel EXCEPT ![r] = lastCall'.result]
            /\ IF lastCall'.result \in DOMAIN cfgConfigs
               THEN /\ pc' = [pc EXCEPT ![r] = "upstream"]
                    /\ attempts' = [attempts EXCEPT ![r].selects = @ + 1,
                                                    ![r].sends = @ + 1]
                    /\ UNCHANGED outcome
               ELSE /\ outcome' = [outcome EXCEPT
                                      ![r] = Failed("ConfigurationError")]
                    /\ attempts' = [attempts EXCEPT ![r].selects = @ + 1]
                    /\ pc' = [pc EXCEPT ![r] = "record"]
    /\ UNCHANGED <<cfgConfigs, cfgActive, cfgFile, recorded, returned>>
    /\ UNCHANGED <<hubVars, logVars, pureVars>>

\* a handler that selects again when the upstream call failed
AfterUpstream_Retry(o) == IF o.kind = "response" THEN "record" ELSE "select"

\* handle_request returns whatever the one upstream call ended in
AfterUpstream(o) == "record"

\* request_builder.send().await and the read of the response
Upstream(r, o) ==
    /\ pc[r] = "upstream"
    /\ outcome' = [outcome EXCEPT ![r] = o]
    /\ pc' = [pc EXCEPT ![r] = AfterUpstream(o)]
    /\ UNCHANGED <<cfgConfigs, cfgActive, cfgFile, sel, recorded, attempts, returned>>
    /\ UNCHANGED <<lbVars, hubVars, logVars, pureVars>>

\* proxy_handler: record_result under the active config name, if there is
\* one; the balancer's save_config succeeds or fails
Record(r, saved) ==
    /\ pc[r] = "record"
    /\ IF cfgActive # NoName
       THEN /\ RecordResultSaving("claude", cfgActive, success(outcome[r]), saved)
            /\ recorded' = [recorded EXCEPT ![r] =
                  Append(@, [name |-> cfgActive, success |-> success(outcome[r])])]
       ELSE UNCHANGED <<recorded, lbVars>>
    /\ pc' = [pc EXCEPT ![r] = "complete"]
    /\ UNCHANGED <<cfgConfigs, cfgActive, cfgFile, sel, outcome, attempts, returned>>
    /\ UNCHANGED <<hubVars, logVars, pureVars>>

\* realtime_hub.request_completed(..).await
Completed(r) ==
    /\ pc[r] = "complete"
    /\ request_completed(r, status_code(outcome[r]), success(outcome[r]))
    /\ pc' = [pc EXCEPT ![r] = "log"]
    /\ UNCHANGED <<cfgConfigs, cfgActive, cfgFile, sel, outcome, recorded, attempts, returned>>
    /\ UNCHANGED <<lbVars, logVars, pureVars>>

\* request_logger.log_request(log), the INSERT; when it fails log_request
\* returns the error and the handler returns
Log(r, ok) ==
    /\ pc[r] = "log"
    /\ IF ok
       THEN /\ log_request_insert(RequestLog(r, now, "proxy", status_code(outcome[r])))
            /\ pc' = [pc EXCEPT ![r] = "trim"]
            /\ UNCHANGED returned
       ELSE /\ pc' = [pc EXCEPT ![r] = "done"]
            /\ returned' = [returned EXCEPT
                               ![r] = ClientResponse(Returns(outcome[r], FALSE))]
            /\ UNCHANGED <<logRows, logMax, logInserted, logEvicted, logList>>
    /\ UNCHANGED <<cfgConfigs, cfgActive, cfgFile, sel, outcome, recorded, logPc, attempts>>
    /\ UNCHANGED <<lbVars, hubVars, pureVars>>

\* request_logger.log_request(log), maintain_log_limit, which succeeds or
\* fails; the response is returned
Trim(r, ok) ==
    /\ pc[r] = "trim"
    /\ IF ok
       THEN maintain_log_limit
       ELSE UNCHANGED <<logRows, logMax, logInserted, logEvicted, logList>>
    /\ pc' = [pc EXCEPT ![r] = "done"]
    /\ returned' = [returned EXCEPT ![r] = ClientResponse(Returns(outcome[r], ok))]
    /\ UNCHANGED <<cfgConfigs, cfgActive, cfgFile, sel, outcome, recorded, logPc, attempts>>
    /\ UNCHANGED <<lbVars, hubVars, pureVars>>

\* a handler that goes on to its terminal stage when the client is gone
AfterDisconnect_Records == "record"

\* where a handler stands once its future is dropped
AfterDisconnect == "dropped"

\* the client closes the connection while the handler waits on the network:
\* the server drops the handler's future at that await
Disconnect(r) ==
    /\ pc[r] \in {"body", "upstream"}
    /\ pc' = [pc EXCEPT ![r] = AfterDisconnect]
    /\ UNCHANGED <<cfgConfigs, cfgActive, cfgFile, sel, outcome, recorded, attempts, returned>>
    /\ UNCHANGED <<lbVars, hubVars, logVars, pureVars>>

\* the removal task of a completed request fires
Removed(r) ==
    /\ RemoveAfterDelay(r)
    /\ UNCHANGED <<lbVars, fwdVars, logVars, pureVars>>

\* the balancer call returns to the handler
Returned ==
    /\ Return
    /\ UNCHANGED <<fwdVars, hubVars, logVars, pureVars>>

\* manual_disabled_until maps a state file is drawn with
ManualInits == {EmptyMap, [k \in {"A"} |-> 1]}

\* LoadBalancer::new: the state loaded from lb_config.toml
InitBalancer(modes, manual) ==
    /\ \E m \in modes, threshold \in 0..MaxThreshold,
          minutes \in 0..MaxResetMinutes, disabled \in manual :
          lb = [mode |-> m,
                services |-> [s \in Services |->
                    ServiceLBConfig(threshold, minutes,
                                    IF s = "claude" THEN disabled ELSE EmptyMap)]]
    /\ lbFile = lb
    /\ fileNewer = FALSE
    /\ lbPeer = [config |-> lb, newer |-> FALSE]
    /\ now = 0
    /\ today = 1
    /\ lastCall = NoCall
    /\ streak = [s \in Services |-> [n \in Names |-> 0]]
    /\ streakAt = [s \in Services |-> [n \in Names |-> 0]]

InitLB == InitBalancer(Modes, ManualInits)

\* LoadBalancer::new without a state file: LoadBalancerConfig::default
InitBalancerDefault ==
    /\ lb = [mode |-> "active-first",
             services |-> [s \in Services |-> ServiceLBConfigDefault]]
    /\ lbFile = lb
    /\ fileNewer = FALSE
    /\ lbPeer = [config |-> lb, newer |-> FALSE]
    /\ now = 0
    /\ today = 1
    /\ lastCall = NoCall
    /\ streak = [s \in Services |-> [n \in Names |-> 0]]
    /\ streakAt = [s \in Services |-> [n \in Names |-> 0]]

\* no request has arrived
InitForwarder(stores, at) ==
    /\ \E c \in stores : cfgConfigs = c.configs /\ cfgActive = c.active
    /\ pc = [r \in Requests |-> at]
    /\ sel = [r \in Requests |-> NoName]
    /\ outcome = [r \in Requests |-> NoOutcome]
    /\ recorded = [r \in Requests |-> <<>>]
    /\ cfgFile = [n \in DOMAIN cfgConfigs |->
                     [weight |-> cfgConfigs[n], active |-> n = cfgActive]]
    /\ attempts = [r \in Requests |-> [selects |-> 0, sends |-> 0]]
    /\ returned = [r \in Requests |-> NoResponse]

\* RealTimeHub::new
InitHub ==
    /\ hubTable = EmptyMap
    /\ hubEvents = <<>>
    /\ hubTimers = EmptyMap
    /\ sub = [s \in Subs |-> NoConnection]

\* RequestLogger::new on an empty database
InitLedger(maxes) ==
    /\ logRows = {}
    /\ logMax \in maxes
    /\ logPc = [w \in LogWriters |-> "idle"]
    /\ logInserted = 0
    /\ logEvicted = {}
    /\ logList = NoList

\* no pure function is being evaluated
InitPure == arg = <<>> /\ res = NotApplied

\* the balancer alone: no request, no connection, no ledger call
InitRest ==
    /\ InitPure
    /\ InitForwarder({[configs |-> EmptyMap, active |-> NoName]}, "idle")
    /\ InitHub
    /\ InitLedger({DefaultMaxLogs})

\* One service family, every pool: the selection contract.
NextSel ==
    \/ \E a \in Names, p \in Pools :
          SelectConfig("claude", a, p) /\ UNCHANGED <<fwdVars, hubVars, logVars, pureVars>>
    \/ \E n \in Names, ok \in BOOLEAN :
          RecordResult("claude", n, ok) /\ UNCHANGED <<fwdVars, hubVars, logVars, pureVars>>
    \/ \E d \in ClockSteps :
          Tick(d, FALSE) /\ UNCHANGED <<fwdVars, hubVars, logVars, pureVars>>
    \/ Returned

InitSel == InitLB /\ InitRest

SpecSel == InitSel /\ [][NextSel]_vars

\* Both service families, one pool: what a call leaves alone.
PoolLB == [k \in Names |-> IF k = "A" THEN 2 ELSE 1]

\* the names each service family's calls are made with
CallNames(service) == IF service = "claude" THEN Names ELSE {"A"}

NextLB ==
    \/ \E s \in Services :
          SelectConfig(s, "A", PoolLB) /\ UNCHANGED <<fwdVars, hubVars, logVars, pureVars>>
    \/ \E s \in Services : \E n \in CallNames(s), ok \in BOOLEAN :
          RecordResult(s, n, ok) /\ UNCHANGED <<fwdVars, hubVars, logVars, pureVars>>
    \/ \E d \in ClockSteps :
          Tick(d, FALSE) /\ UNCHANGED <<fwdVars, hubVars, logVars, pureVars>>
    \/ Returned

InitFrame == InitBalancer({"weight-based"}, {EmptyMap})

InitTwo == InitFrame /\ InitRest

SpecLB == InitTwo /\ [][NextLB]_vars

\* manual_disabled_until maps with entries of yesterday, today and tomorrow
ManualDays ==
    {[k \in {"A"} |-> 1],
     [k \in Names |-> IF k = "A" THEN 1 ELSE 0],
     [k \in Names |-> IF k = "A" THEN 2 ELSE 0]}

\* One service family, one pool, days passing: the manual-disable sweep.
NextDay ==
    \/ SelectConfig("claude", "A", PoolLB) /\ UNCHANGED <<fwdVars, hubVars, logVars, pureVars>>
    \/ \E n \in Names, ok \in BOOLEAN :
          RecordResult("claude", n, ok) /\ UNCHANGED <<fwdVars, hubVars, logVars, pureVars>>
    \/ \E d \in ClockSteps, midnight \in BOOLEAN :
          Tick(d, midnight) /\ UNCHANGED <<fwdVars, hubVars, logVars, pureVars>>
    \/ Returned

InitDay == InitBalancer(Modes, ManualDays) /\ InitRest

SpecDay == InitDay /\ [][NextDay]_vars

\* ---------------------------------------------------------------------------
\* Header handling (proxy/proxy_service.rs)
\* ---------------------------------------------------------------------------

\* every sequence over S of length at most n
RECURSIVE SeqsUpTo(_, _)
SeqsUpTo(S, n) ==
    IF n = 0 THEN {<<>>}
    ELSE LET shorter == SeqsUpTo(S, n - 1)
         IN shorter \cup {Append(q, x) : q \in {t \in shorter : Len(t) = n - 1}, x \in S}

\* one header line; names are HeaderName values, lower case as the http
\* crate keeps them
Header(name, value) == [name |-> name, value |-> value]

\* HeaderMap::insert: the value replaces whatever the name had
HeaderInsert(m, name, value) == MapInsert(m, name, <<value>>)

\* HeaderMap::append (Response::builder().header): the value is added
HeaderAppend(m, name, value) ==
    MapInsert(m, name, IF name \in DOMAIN m THEN Append(m[name], value) ELSE <<value>>)

\* the header lines a client sends
ClientHeaders ==
    {Header(n, v) : n \in {"x-api-key", "authorization", "accept", "host"},
                    v \in {"c1", "c2"}}

\* ServiceConfig as build_headers reads it: api_key, auth_token (NoName when
\* None) and the host of base_url (NoName when the URL does not parse)
ServiceConfigs ==
    [api_key : {NoName, "K"}, auth_token : {NoName, "T"}, host : {NoName, "up"}]

\* format!("Bearer {}", auth_token)
Bearer(auth_token) == <<"Bearer ", auth_token>>

\* the exclusion list without authorization
Excluded_NoAuthorization == {"host", "content-length", "x-api-key"}

\* build_headers: excluded
Excluded == {"host", "content-length", "x-api-key", "authorization"}

\* build_headers: the copy loop over the inbound header lines
RECURSIVE CopyHeaders(_, _)
CopyHeaders(original_headers, headers) ==
    IF original_headers = <<>>
    THEN headers
    ELSE LET h == Head(original_headers)
         IN CopyHeaders(Tail(original_headers),
                        IF h.name \in Excluded
                        THEN headers
                        ELSE HeaderInsert(headers, h.name, h.value))

\* ProxyService::build_headers
build_headers(original_headers, config) ==
    LET copied == CopyHeaders(original_headers, EmptyMap)
        hosted == IF config.host # NoName
                  THEN HeaderInsert(copied, "host", config.host) ELSE copied
        keyed == IF config.api_key # NoName
                 THEN HeaderInsert(hosted, "x-api-key", config.api_key) ELSE hosted
        authed == IF config.auth_token # NoName
                  THEN HeaderInsert(keyed, "authorization", Bearer(config.auth_token))
                  ELSE keyed
    IN HeaderInsert(authed, "connection", "keep-alive")

\* nothing but a pure function runs
InitIdle ==
    /\ InitBalancerDefault
    /\ InitForwarder({[configs |-> EmptyMap, active |-> NoName]}, "idle")
    /\ InitHub
    /\ InitLedger({DefaultMaxLogs})

\* handle_request builds the outbound headers
BuildHeaders ==
    /\ res = NotApplied
    /\ res' = Applied(build_headers(arg.headers, arg.config))
    /\ UNCHANGED <<arg, lbVars, fwdVars, hubVars, logVars>>

InitOutbound ==
    /\ InitIdle
    /\ arg \in [headers : SeqsUpTo(ClientHeaders, MaxHeaders), config : ServiceConfigs]
    /\ res = NotApplied

NextOutbound == BuildHeaders

SpecOutbound == InitOutbound /\ [][NextOutbound]_vars

\* the header lines an upstream answers with
UpstreamHeaders ==
    {Header(n, v) : n \in {"connection", "transfer-encoding", "content-length",
                            "content-type", "set-cookie"},
                    v \in {"v1", "v2"}}

\* handle_request: the response headers that are not copied
Stripped == {"connection", "transfer-encoding", "content-length"}

\* a copy that keeps one value per name
ResponseHeader_Insert(m, name, value) == HeaderInsert(m, name, value)

\* resp_builder.header(key, value)
ResponseHeader(m, name, value) == HeaderAppend(m, name, value)

\* handle_request: "Copy safe headers to response"
RECURSIVE CopyResponseHeaders(_, _)
CopyResponseHeaders(response_headers, built) ==
    IF response_headers = <<>>
    THEN built
    ELSE LET h == Head(response_headers)
         IN CopyResponseHeaders(Tail(response_headers),
                                IF h.name \in Stripped
                                THEN built
                                ELSE ResponseHeader(built, h.name, h.value))

\* handle_request builds the response from the upstream's
BuildResponse ==
    /\ res = NotApplied
    /\ res' = Applied(CopyResponseHeaders(arg, EmptyMap))
    /\ UNCHANGED <<arg, lbVars, fwdVars, hubVars, logVars>>

InitInbound ==
    /\ InitIdle
    /\ arg \in SeqsUpTo(UpstreamHeaders, MaxHeaders)
    /\ res = NotApplied

NextInbound == BuildResponse

SpecInbound == InitInbound /\ [][NextInbound]_vars

\* ---------------------------------------------------------------------------
\* Streaming classification (proxy/proxy_service.rs is_streaming_request)
\* ---------------------------------------------------------------------------

\* Header values as sequences of fragments, cut where the patterns the
\* classifier looks for begin and end.
EventStream == <<"text/", "event-", "stream">>

NdJson == <<"application/x-ndjson">>

Json == <<"application/json">>

OctetStream == <<"application/octet-", "stream">>

CreateAndStream == <<"createAnd", "Stream">>

Create == <<"create">>

\* a header the request does not carry
Absent == <<>>

\* char::to_lowercase on a fragment
LowerFragment(f) ==
    IF f = "createAnd" THEN "createand"
    ELSE IF f = "Stream" THEN "stream"
    ELSE f

\* str::to_lowercase
to_lowercase(v) == [i \in 1..Len(v) |-> LowerFragment(v[i])]

\* str::contains
contains(v, pattern) ==
    \E i \in 0..(Len(v) - Len(pattern)) :
        \A j \in 1..Len(pattern) : v[i + j] = pattern[j]

\* a classifier that looks for application/x-ndjson in content-type
is_streaming_request_NdJsonBody(headers) ==
    \/ /\ headers.accept # Absent
       /\ contains(headers.accept, EventStream)
    \/ /\ headers.content_type # Absent
       /\ contains(headers.content_type, NdJson)
    \/ /\ headers.helper # Absent
       /\ contains(to_lowercase(headers.helper), <<"stream">>)

\* ProxyService::is_streaming_request
is_streaming_request(headers) ==
    \/ /\ headers.accept # Absent
       /\ \/ contains(headers.accept, EventStream)
          \/ contains(headers.accept, NdJson)
    \/ /\ headers.content_type # Absent
       /\ \/ contains(headers.content_type, <<"stream">>)
          \/ contains(headers.content_type, <<"event-", "stream">>)
    \/ /\ headers.helper # Absent
       /\ contains(to_lowercase(headers.helper), <<"stream">>)

\* the values of accept, content-type and x-stainless-helper-method
HeaderValues ==
    {Absent, EventStream, NdJson, Json, OctetStream, CreateAndStream, Create}

\* handle_request classifies the request
Classify ==
    /\ res = NotApplied
    /\ res' = Applied(is_streaming_request(arg))
    /\ UNCHANGED <<arg, lbVars, fwdVars, hubVars, logVars>>

InitClassify ==
    /\ InitIdle
    /\ arg \in [accept : HeaderValues, content_type : HeaderValues,
                helper : HeaderValues]
    /\ res = NotApplied

NextClassify == Classify

SpecClassify == InitClassify /\ [][NextClassify]_vars

\* ---------------------------------------------------------------------------
\* Usage extraction (logging/usage_parser.rs)
\* ---------------------------------------------------------------------------

\* A member of a JSON object as Value::get and as_u64 / as_str see it:
\* missing, present with a u64 or string, present with something else.
Missing == [kind |-> "missing", n |-> 0, s |-> ""]

Other == [kind |-> "other", n |-> 0, s |-> ""]

Num(n) == [kind |-> "u64", n |-> n, s |-> ""]

Str(s) == [kind |-> "str", n |-> 0, s |-> s]

\* Option<UsageMetrics>
NoUsage == [some |-> FALSE, prompt_tokens |-> 0, completion_tokens |-> 0,
            total_tokens |-> 0, model |-> ""]

UsageMetrics(prompt, completion, total, model) ==
    [some |-> TRUE, prompt_tokens |-> prompt, completion_tokens |-> completion,
     total_tokens |-> total, model |-> model]

\* Value::as_u64().unwrap_or(d)
as_u64_or(v, d) == IF v.kind = "u64" THEN v.n ELSE d

\* json.get("model").and_then(|m| m.as_str()).unwrap_or("unknown")
model_of(json) == IF json.model.kind = "str" THEN json.model.s ELSE "unknown"

\* extract_claude_usage
extract_claude_usage(json) ==
    IF ~json.has_usage THEN NoUsage
    ELSE IF json.usage.input_tokens = Missing THEN NoUsage
    ELSE IF json.usage.output_tokens = Missing THEN NoUsage
    ELSE LET input_tokens == as_u64_or(json.usage.input_tokens, 0)
             output_tokens == as_u64_or(json.usage.output_tokens, 0)
         IN UsageMetrics(input_tokens, output_tokens,
                         input_tokens + output_tokens, model_of(json))

\* extract_openai_usage
extract_openai_usage(json) ==
    IF ~json.has_usage THEN NoUsage
    ELSE IF json.usage.prompt_tokens = Missing THEN NoUsage
    ELSE IF json.usage.completion_tokens = Missing THEN NoUsage
    ELSE IF json.usage.total_tokens = Missing THEN NoUsage
    ELSE LET prompt_tokens == as_u64_or(json.usage.prompt_tokens, 0)
             completion_tokens == as_u64_or(json.usage.completion_tokens, 0)
         IN UsageMetrics(prompt_tokens, completion_tokens,
                         as_u64_or(json.usage.total_tokens,
                                   prompt_tokens + completion_tokens),
                         model_of(json))

\* the per-service extractor of extract_usage_from_response
extract_for(service, json) ==
    IF service = "claude" THEN extract_claude_usage(json)
    ELSE IF service = "codex" THEN extract_openai_usage(json)
    ELSE NoUsage

\* the members a usage object is drawn with
TokenValues == {Missing, Other, Num(5), Num(15)}

TotalValues == {Missing, Other, Num(20), Num(7)}

ModelValues == {Missing, Str("gpt-4"), Str("")}

\* a JSON document: whether it has a usage object, the object's members, and
\* the top-level model
Documents ==
    [has_usage : BOOLEAN,
     usage : [input_tokens : {Missing, Num(5)}, output_tokens : {Missing, Num(15)},
              prompt_tokens : TokenValues, completion_tokens : TokenValues,
              total_tokens : TotalValues],
     model : ModelValues]

\* extract_usage_from_response on a body that parses as JSON
ExtractFromJson ==
    /\ res = NotApplied
    /\ res' = Applied(extract_for(arg.service, arg.json))
    /\ UNCHANGED <<arg, lbVars, fwdVars, hubVars, logVars>>

InitUsage ==
    /\ InitIdle
    /\ arg \in [service : Services, json : Documents]
    /\ res = NotApplied

NextUsage == ExtractFromJson

SpecUsage == InitUsage /\ [][NextUsage]_vars

\* UsageMetrics::default()
UsageDefault == UsageMetrics(0, 0, 0, "")

\* a usage object with the given prompt_tokens, completion_tokens and
\* total_tokens and no claude members
OpenAiUsage(prompt, completion, total) ==
    [input_tokens |-> Missing, output_tokens |-> Missing,
     prompt_tokens |-> prompt, completion_tokens |-> completion,
     total_tokens |-> total]

\* a usage object with the given input_tokens and output_tokens only
ClaudeUsage(input, output) ==
    [input_tokens |-> input, output_tokens |-> output,
     prompt_tokens |-> Missing, completion_tokens |-> Missing,
     total_tokens |-> Missing]

Document(has_usage, usage, model) ==
    [has_usage |-> has_usage, usage |-> usage, model |-> model]

PromptOnly == Document(TRUE, OpenAiUsage(Num(5), Missing, Missing), Missing)

CompletionAndTotal ==
    Document(TRUE, OpenAiUsage(Missing, Num(15), Num(20)), Str("gpt-4"))

\* the JSON documents the data lines of a stream are drawn with
FrameDocuments ==
    { PromptOnly,
      CompletionAndTotal,
      Document(TRUE, OpenAiUsage(Num(5), Num(15), Num(20)), Str("gpt-4")),
      Document(TRUE, OpenAiUsage(Num(5), Num(15), Num(20)), Missing),
      Document(TRUE, ClaudeUsage(Num(5), Num(15)), Str("")),
      Document(FALSE, OpenAiUsage(Missing, Missing, Missing), Str("gpt-4")) }

\* a line of the body: "data: " followed by a JSON document, "data: [DONE]",
\* "data: " followed by text that is not JSON, or a line without the prefix
DataLine(json) == [kind |-> "data", json |-> json]

DoneLine == [kind |-> "done", json |-> Document(FALSE, OpenAiUsage(Missing, Missing, Missing), Missing)]

TextLine == [kind |-> "text", json |-> DoneLine.json]

EventLine == [kind |-> "event", json |-> DoneLine.json]

Lines == {DataLine(json) : json \in FrameDocuments} \cup {DoneLine, TextLine, EventLine}

\* the merge of one line into the running total and found_usage
MergeLine(service, total, line) ==
    LET usage == extract_for(service, line.json)
    IN IF line.kind = "data" /\ usage.some
       THEN UsageMetrics(total.prompt_tokens + usage.prompt_tokens,
                         total.completion_tokens + usage.completion_tokens,
                         total.total_tokens + usage.total_tokens,
                         IF usage.model # "" THEN usage.model ELSE total.model)
       ELSE total

RECURSIVE MergeLines(_, _, _, _)
\* the loop over stream.lines(): the running total and found_usage after it
MergeLines(service, total, found, stream) ==
    IF stream = <<>> THEN [total |-> total, found |-> found]
    ELSE LET line == Head(stream)
             hit == line.kind = "data" /\ extract_for(service, line.json).some
         IN MergeLines(service, MergeLine(service, total, line),
                       found \/ hit, Tail(stream))

\* extract_from_sse_stream
extract_from_sse_stream(service, stream) ==
    LET merged == MergeLines(service, UsageDefault, FALSE, stream)
    IN IF merged.found THEN merged.total ELSE NoUsage

\* extract_usage_from_response on a body that does not parse as JSON
ExtractFromSse ==
    /\ res = NotApplied
    /\ res' = Applied(extract_from_sse_stream(arg.service, arg.stream))
    /\ UNCHANGED <<arg, lbVars, fwdVars, hubVars, logVars>>

InitSse ==
    /\ InitIdle
    /\ \E n \in 0..MaxLines : arg \in [service : Services, stream : [1..n -> Lines]]
    /\ res = NotApplied

NextSse == ExtractFromSse

SpecSse == InitSse /\ [][NextSse]_vars

\* ---------------------------------------------------------------------------
\* The configuration store (config/config_manager.rs, web/web_server.rs)
\* ---------------------------------------------------------------------------

\* the tables a config file can hold: name -> [weight, active], any number of
\* them marked active
StoreFiles ==
    UNION {[S -> [weight : Weights, active : BOOLEAN]] : S \in SUBSET Names}

\* save_configs: every upstream with active = (name is the active name)
save_configs(configs, active) ==
    [n \in DOMAIN configs |-> [weight |-> configs[n], active |-> n = active]]

\* HashMap::keys().next(): some key of the map, None when it is empty
FirstKeys(configs) == IF DOMAIN configs = {} THEN {NoName} ELSE DOMAIN configs

\* load_configs: the stores [configs, active, file] a load of the file can
\* give. The active name is that of the last table marked active in the
\* enumeration order of the file, which the source does not fix; without a
\* marked table it is some key of the map.
load_configs(file) ==
    LET configs == [n \in DOMAIN file |-> file[n].weight]
        marked == {n \in DOMAIN file : file[n].active}
    IN {[configs |-> configs, active |-> a, file |-> file] :
           a \in IF marked # {} THEN marked ELSE FirstKeys(configs)}

\* add_config: insert, then save
add_config(st, name, weight) ==
    LET configs == MapInsert(st.configs, name, weight)
    IN [configs |-> configs, active |-> st.active,
        file |-> save_configs(configs, st.active)]

\* remove_config: remove, promote some remaining key when the active
\* upstream was removed, then save
remove_config(st, name) ==
    LET configs == MapRemove(st.configs, name)
    IN {[configs |-> configs, active |-> a, file |-> save_configs(configs, a)] :
           a \in IF st.active = name THEN FirstKeys(configs) ELSE {st.active}}

\* a set_active_config that changes the active name and does not save
set_active_config_Unsaved(st, name) ==
    [configs |-> st.configs, active |-> name, file |-> st.file]

\* set_active_config on a name of the map
set_active_config(st, name) ==
    [configs |-> st.configs, active |-> name,
     file |-> save_configs(st.configs, name)]

\* the store of the service under study
Store == [configs |-> cfgConfigs, active |-> cfgActive, file |-> cfgFile]

\* the store becomes st after the call `call`, which returned `result`
StoreBecomes(st, call, result) ==
    /\ cfgConfigs' = st.configs
    /\ cfgActive' = st.active
    /\ cfgFile' = st.file
    /\ arg' = call
    /\ res' = Applied(result)
    /\ UNCHANGED <<pc, sel, outcome, recorded, attempts, returned>>
    /\ UNCHANGED <<lbVars, hubVars, logVars>>

StoreCall(op, name, weight) == [op |-> op, name |-> name, weight |-> weight]

\* add_config_for
AddConfig ==
    \E name \in Names, weight \in Weights :
        StoreBecomes(add_config(Store, name, weight),
                     StoreCall("add", name, weight), "Ok")

\* delete_config_for
RemoveConfig ==
    \E name \in Names :
        \E st \in remove_config(Store, name) :
            StoreBecomes(st, StoreCall("remove", name, 0), "Ok")

\* update_config_for: remove the current name, then add under the same or
\* a new name
UpdateConfig ==
    \E current_name \in Names, name \in Names, weight \in Weights :
        \E st \in remove_config(Store, current_name) :
            StoreBecomes(add_config(st, name, weight),
                         StoreCall("update", name, weight), "Ok")

\* activate_config_for
ActivateConfig ==
    \E name \in Names :
        IF name \in DOMAIN cfgConfigs
        THEN StoreBecomes(set_active_config(Store, name),
                          StoreCall("activate", name, 0), "Ok")
        ELSE StoreBecomes(Store, StoreCall("activate", name, 0), "Err")

\* reload
Reload ==
    \E st \in load_configs(cfgFile) :
        StoreBecomes(st, StoreCall("reload", NoName, 0), "Ok")

\* ConfigManager::new: the file as found, loaded
InitStore ==
    /\ InitBalancerDefault
    /\ InitHub
    /\ InitLedger({DefaultMaxLogs})
    /\ \E file \in StoreFiles : \E st \in load_configs(file) :
          /\ cfgConfigs = st.configs
          /\ cfgActive = st.active
          /\ cfgFile = st.file
    /\ pc = [r \in Requests |-> "idle"]
    /\ sel = [r \in Requests |-> NoName]
    /\ outcome = [r \in Requests |-> NoOutcome]
    /\ recorded = [r \in Requests |-> <<>>]
    /\ attempts = [r \in Requests |-> [selects |-> 0, sends |-> 0]]
    /\ returned = [r \in Requests |-> NoResponse]
    /\ arg = StoreCall("new", NoName, 0)
    /\ res = Applied("Ok")

NextStore ==
    \/ AddConfig
    \/ RemoveConfig
    \/ UpdateConfig
    \/ ActivateConfig
    \/ Reload

SpecStore == InitStore /\ [][NextStore]_vars

\* ---------------------------------------------------------------------------
\* select_weighted_config as a function of its arguments
\* ---------------------------------------------------------------------------

\* the active names a select is called with: a name of the pool snapshot or
\* one activated after the snapshot was taken
ActiveNames == Names \cup {"C"}

\* the service states a select can find: failure counts up to the threshold,
\* the names at the threshold excluded, a manual disable or none
SelectStates ==
    {[ServiceLBConfig(threshold, 0, disabled) EXCEPT
         !.current_failures = counts,
         !.excluded_configs = excluded,
         !.excluded_timestamps = [n \in Range(excluded) |-> 0]] :
       <<threshold, counts, disabled, excluded>> \in
          {q \in (1..MaxThreshold) \X [Names -> 0..MaxThreshold]
                    \X ManualInits \X {<<>>, <<"A">>, <<"B">>, <<"A", "B">>, <<"B", "A">>} :
              Range(q[4]) = {n \in Names : q[2][n] >= q[1]}}}

\* LoadBalancer::select_weighted_config
SelectWeighted ==
    /\ res = NotApplied
    /\ res' = Applied(select_weighted_config(arg.active_config, arg.configs,
                                             arg.service_config, today))
    /\ UNCHANGED <<arg, lbVars, fwdVars, hubVars, logVars>>

InitWeighted ==
    /\ InitIdle
    /\ arg \in [active_config : ActiveNames, configs : Pools,
                service_config : SelectStates]
    /\ res = NotApplied

NextWeighted == SelectWeighted

SpecWeighted == InitWeighted /\ [][NextWeighted]_vars

\* a caller of the hub's request API: request_started, request_streaming
\* at most MaxProgress times, request_completed
HubStart(r) ==
    /\ pc[r] = "start"
    /\ request_started_insert(r)
    /\ pc' = [pc EXCEPT ![r] = "emit"]
    /\ UNCHANGED <<cfgConfigs, cfgActive, cfgFile, sel, outcome, recorded, attempts, returned>>
    /\ UNCHANGED <<lbVars, logVars, pureVars>>

HubEmit(r) ==
    /\ pc[r] = "emit"
    /\ request_started_emit(r)
    /\ pc' = [pc EXCEPT ![r] = "running"]
    /\ UNCHANGED <<cfgConfigs, cfgActive, cfgFile, sel, outcome, recorded, attempts, returned>>
    /\ UNCHANGED <<lbVars, logVars, pureVars>>

HubStreaming(r) ==
    /\ pc[r] = "running"
    /\ Len(SelectSeq(hubEvents,
                     LAMBDA e : e.request_id = r /\ e.type = "progress")) < MaxProgress
    /\ request_streaming(r)
    /\ UNCHANGED <<lbVars, fwdVars, logVars, pureVars>>

HubComplete(r, ok) ==
    /\ pc[r] = "running"
    /\ request_completed(r, IF ok THEN 200 ELSE 500, ok)
    /\ pc' = [pc EXCEPT ![r] = "finished"]
    /\ UNCHANGED <<cfgConfigs, cfgActive, cfgFile, sel, outcome, recorded, attempts, returned>>
    /\ UNCHANGED <<lbVars, logVars, pureVars>>

\* The hub: two requests and a WebSocket connection attaching, within one
\* instant of the clock (no removal task wakes).
NextHub ==
    \/ \E r \in Requests : HubStart(r)
    \/ \E r \in Requests : HubEmit(r)
    \/ \E r \in Requests : HubStreaming(r)
    \/ \E r \in Requests, ok \in BOOLEAN : HubComplete(r, ok)
    \/ \E s \in Subs : Subscribe(s) /\ UNCHANGED <<lbVars, fwdVars, logVars, pureVars>>
    \/ \E s \in Subs : SnapshotLock(s) /\ UNCHANGED <<lbVars, fwdVars, logVars, pureVars>>
    \/ \E s \in Subs, ok \in BOOLEAN :
          SendSnapshot(s, ok) /\ UNCHANGED <<lbVars, fwdVars, logVars, pureVars>>
    \/ \E s \in Subs, ok \in BOOLEAN :
          Deliver(s, ok) /\ UNCHANGED <<lbVars, fwdVars, logVars, pureVars>>
    \/ \E s \in Subs : Close(s) /\ UNCHANGED <<lbVars, fwdVars, logVars, pureVars>>

InitHubSpec ==
    /\ InitPure
    /\ InitBalancerDefault
    /\ InitForwarder({[configs |-> EmptyMap, active |-> NoName]}, "start")
    /\ InitHub
    /\ InitLedger({DefaultMaxLogs})

SpecHub == InitHubSpec /\ [][NextHub]_vars

\* The ledger: two writers and a reader on one database.
NextLedger ==
    \/ \E w \in LogWriters, t \in 1..MaxStamp :
          LogInsert(w, t) /\ UNCHANGED <<lbVars, fwdVars, hubVars, pureVars>>
    \/ \E w \in LogWriters : LogTrim(w) /\ UNCHANGED <<lbVars, fwdVars, hubVars, pureVars>>
    \/ \E p \in LogPages :
          GetLogs(p[1], p[2]) /\ UNCHANGED <<lbVars, fwdVars, hubVars, pureVars>>

InitLedgerSpec ==
    /\ InitPure
    /\ InitBalancerDefault
    /\ InitForwarder({[configs |-> EmptyMap, active |-> NoName]}, "idle")
    /\ InitHub
    /\ InitLedger(LedgerMaxes)

SpecLedger == InitLedgerSpec /\ [][NextLedger]_vars

\* The forwarder: two requests through proxy_handler, one service family,
\* within one instant of the clock (no removal task wakes).
NextFwd ==
    \/ \E r \in Requests, ok \in BOOLEAN : ReadBody(r, ok)
    \/ \E r \in Requests : Started(r)
    \/ \E r \in Requests : StartedEmit(r)
    \/ \E r \in Requests : Select(r)
    \/ \E r \in Requests, o \in UpstreamOutcomes : Upstream(r, o)
    \/ \E r \in Requests : Record(r, TRUE)
    \/ \E r \in Requests : Completed(r)
    \/ \E r \in Requests : Log(r, TRUE)
    \/ \E r \in Requests : Trim(r, TRUE)
    \/ \E r \in Requests : Disconnect(r)
    \/ Returned

InitFwd ==
    /\ InitPure
    /\ InitBalancer(Modes, {EmptyMap})
    /\ InitForwarder(ConfigStores, "body")
    /\ InitHub
    /\ InitLedger({DefaultMaxLogs})

SpecFwd == InitFwd /\ [][NextFwd]_vars

\* the forwarder under a runtime that keeps polling every task that can run
SpecFwdLive == InitFwd /\ [][NextFwd]_vars /\ WF_vars(NextFwd)

\* the ids of n earlier requests
OldIds(n) == {ToString(i) : i \in 1..n}

\* a table of n entries left by earlier requests, started one after the
\* other, the two oldest at the same instant when `together`
OldTable(n, together) ==
    [k \in OldIds(n) |->
        LET i == CHOOSE j \in 1..n : ToString(j) = k
        IN RealTimeRequest(IF together /\ i = 1 THEN 2 - n - 1 ELSE i - n - 1)]

\* the hub with a table that is full or one short of it, and two requests
\* about to call request_started
InitCap ==
    /\ InitPure
    /\ InitBalancerDefault
    /\ InitForwarder({[configs |-> EmptyMap, active |-> NoName]}, "start")
    /\ InitLedger({DefaultMaxLogs})
    /\ \E n \in {HubCap - 1, HubCap}, together \in BOOLEAN :
          hubTable = OldTable(n, together)
    /\ hubEvents = <<>>
    /\ hubTimers = EmptyMap
    /\ sub = [s \in Subs |-> NoConnection]

NextCap ==
    \/ \E r \in Requests : HubStart(r)
    \/ \E r \in Requests : HubEmit(r)
    \/ \E d \in ClockSteps :
          Tick(d, FALSE) /\ UNCHANGED <<fwdVars, hubVars, logVars, pureVars>>

SpecCap == InitCap /\ [][NextCap]_vars

\* one request through the forwarder while the ledger's database and the
\* balancer's state file can fail at every write
NextFault ==
    \/ \E ok \in BOOLEAN : ReadBody("r1", ok)
    \/ Started("r1")
    \/ StartedEmit("r1")
    \/ Select("r1")
    \/ \E o \in UpstreamOutcomes : Upstream("r1", o)
    \/ \E saved \in BOOLEAN : Record("r1", saved)
    \/ Completed("r1")
    \/ \E ok \in BOOLEAN : Log("r1", ok)
    \/ \E ok \in BOOLEAN : Trim("r1", ok)
    \/ Returned

InitFault == InitFwd

SpecFault == InitFault /\ [][NextFault]_vars

\* one request through the forwarder while the clock advances, its client
\* may disconnect and the removal task of its hub entry wakes
NextRetain ==
    \/ \E ok \in BOOLEAN : ReadBody("r1", ok)
    \/ Started("r1")
    \/ StartedEmit("r1")
    \/ Select("r1")
    \/ \E o \in UpstreamOutcomes : Upstream("r1", o)
    \/ Record("r1", TRUE)
    \/ Completed("r1")
    \/ Log("r1", TRUE)
    \/ Trim("r1", TRUE)
    \/ Disconnect("r1")
    \/ Removed("r1")
    \/ Returned
    \/ \E d \in ClockSteps :
          Tick(d, FALSE) /\ UNCHANGED <<fwdVars, hubVars, logVars, pureVars>>

InitRetain == InitFwd

\* the runtime keeps polling every task that can run and the clock keeps
\* advancing up to the horizon MaxNow
SpecRetain == InitRetain /\ [][NextRetain]_vars /\ WF_vars(NextRetain)

\* the events of n/2 earlier requests, each started and completed
Backlog(n) ==
    [i \in 1..n |->
        IF i % 2 = 1
        THEN Event("started", ToString((i + 1) \div 2), 0)
        ELSE Event("completed", ToString(i \div 2), 200)]

\* the hub with a connection that attached to an empty table and whose
\* socket has stalled since: its receiver has a backlog that fills the
\* channel or is one short of it; the earlier requests have left the table
InitLag ==
    /\ InitPure
    /\ InitBalancerDefault
    /\ InitForwarder({[configs |-> EmptyMap, active |-> NoName]}, "start")
    /\ InitLedger({DefaultMaxLogs})
    /\ hubTable = EmptyMap
    /\ hubTimers = EmptyMap
    /\ \E n \in {ChannelCapacity - 1, ChannelCapacity} :
          /\ hubEvents = Backlog(n)
          /\ sub = [s \in Subs |->
                       [NoConnection EXCEPT !.phase = "live", !.rx = Backlog(n)]]

\* the socket of a lagging connection accepts at most MaxSent messages
LagDeliver(s, ok) ==
    /\ Len(sub[s].sent) < MaxSent
    /\ Deliver(s, ok)
    /\ UNCHANGED <<lbVars, fwdVars, logVars, pureVars>>

NextLag ==
    \/ \E r \in Requests : HubStart(r)
    \/ \E r \in Requests : HubEmit(r)
    \/ \E r \in Requests, ok \in BOOLEAN : HubComplete(r, ok)
    \/ \E s \in Subs, ok \in BOOLEAN : LagDeliver(s, ok)
    \/ \E s \in Subs : RecvLagged(s) /\ UNCHANGED <<lbVars, fwdVars, logVars, pureVars>>
    \/ \E s \in Subs : Close(s) /\ UNCHANGED <<lbVars, fwdVars, logVars, pureVars>>

SpecLag == InitLag /\ [][NextLag]_vars

\* the steps of the tasks that call the hub's request API
HubCalls ==
    \E r \in Requests :
        \/ HubStart(r)
        \/ HubEmit(r)
        \/ HubStreaming(r)
        \/ \E ok \in BOOLEAN : HubComplete(r, ok)

\* the steps of send_snapshot once a connection has subscribed
SnapshotSteps ==
    \E s \in Subs :
        /\ SnapshotLock(s) \/ \E ok \in BOOLEAN : SendSnapshot(s, ok)
        /\ UNCHANGED <<lbVars, fwdVars, logVars, pureVars>>

InitStall == InitHubSpec

\* the hub under a runtime that keeps polling the callers of the request
\* API; nothing is assumed of a connection's socket
SpecStall == InitStall /\ [][NextHub]_vars /\ WF_vars(HubCalls)

\* the same, with sockets that always take the snapshot in the end
SpecDrain ==
    InitStall /\ [][NextHub]_vars /\ WF_vars(HubCalls) /\ WF_vars(SnapshotSteps)

\* ---------------------------------------------------------------------------
\* Config store under concurrent callers (config/config_manager.rs)
\* ---------------------------------------------------------------------------

\* the web handlers that call the store at the same time
Callers == Requests

\* the caller's step changes the store and its own position
CallerStep(t, at, name, configs, active, file) ==
    /\ pc' = [pc EXCEPT ![t] = at]
    /\ sel' = [sel EXCEPT ![t] = name]
    /\ cfgConfigs' = configs
    /\ cfgActive' = active
    /\ cfgFile' = file
    /\ UNCHANGED <<outcome, recorded, attempts, returned>>
    /\ UNCHANGED <<lbVars, hubVars, logVars, pureVars>>

\* set_active_config, lines 149-156: the check under configs.read()
ActivateCheck(t, config_name) ==
    /\ pc[t] = "idle"
    /\ CallerStep(t, IF config_name \in DOMAIN cfgConfigs THEN "activate" ELSE "failed",
                  config_name, cfgConfigs, cfgActive, cfgFile)

\* set_active_config, line 158: the store under active_config.write()
ActivateSet(t) ==
    /\ pc[t] = "activate"
    /\ CallerStep(t, "save", sel[t], cfgConfigs, sel[t], cfgFile)

\* add_config, lines 166-168: the insert under configs.write()
AddInsert(t, name, weight) ==
    /\ pc[t] = "idle"
    /\ CallerStep(t, "save", name, MapInsert(cfgConfigs, name, weight), cfgActive, cfgFile)

\* remove_config, lines 175-178: the removal under configs.write()
RemoveEntry(t, config_name) ==
    /\ pc[t] = "idle"
    /\ CallerStep(t, "remove", config_name, MapRemove(cfgConfigs, config_name),
                  cfgActive, cfgFile)

\* remove_config, lines 180-181: the active name is read and compared
RemoveCompare(t) ==
    /\ pc[t] = "remove"
    /\ CallerStep(t, IF cfgActive = sel[t] THEN "pick" ELSE "save",
                  sel[t], cfgConfigs, cfgActive, cfgFile)

\* remove_config, lines 182-184: some key of the map under configs.read()
RemovePick(t) ==
    /\ pc[t] = "pick"
    /\ \E new_active \in FirstKeys(cfgConfigs) :
          CallerStep(t, "promote", new_active, cfgConfigs, cfgActive, cfgFile)

\* remove_config, line 185: the store under active_config.write()
RemovePromote(t) ==
    /\ pc[t] = "promote"
    /\ CallerStep(t, "save", sel[t], cfgConfigs, sel[t], cfgFile)

\* save_configs: both read guards are held until the file is written
Save(t) ==
    /\ pc[t] = "save"
    /\ CallerStep(t, "returned", sel[t], cfgConfigs, cfgActive,
                  save_configs(cfgConfigs, cfgActive))

\* the steps of caller t
CallerNext(t) ==
    \/ \E n \in Names : ActivateCheck(t, n)
    \/ ActivateSet(t)
    \/ \E n \in Names, w \in Weights : AddInsert(t, n, w)
    \/ \E n \in Names : RemoveEntry(t, n)
    \/ RemoveCompare(t)
    \/ RemovePick(t)
    \/ RemovePromote(t)
    \/ Save(t)

\* two callers, one call each, every interleaving of their steps
NextRace == \E t \in Callers : CallerNext(t)

InitRace == InitStore

SpecRace == InitRace /\ [][NextRace]_vars

\* ---------------------------------------------------------------------------
\* Config document round trip (config/config_manager.rs)
\* ---------------------------------------------------------------------------

\* Option<String>
None == <<>>

Some(v) == <<v>>

\* ServiceConfig as save_configs reads it (the descriptor's own active flag
\* is not read: the document's flag comes from the active name)
Descriptors ==
    [base_url : {"u"}, api_key : {None, Some("K")},
     auth_token : {None, Some(""), Some("T")}, weight : Weights]

\* the in-memory states of a ConfigManager: a map of descriptors and the
\* active name, NoName when None
MemoryStores ==
    UNION {[configs : [S -> Descriptors], active : S \cup {NoName}] :
             S \in SUBSET Names}

\* Option::unwrap_or_default
unwrap_or_default(o) == IF o = None THEN "" ELSE o[1]

\* save_configs: the table written for every upstream. auth_token is always
\* written, api_key only when it is Some
save_document(configs, active_name) ==
    [name \in DOMAIN configs |->
        [base_url |-> configs[name].base_url,
         auth_token |-> unwrap_or_default(configs[name].auth_token),
         api_key |-> configs[name].api_key,
         weight |-> configs[name].weight,
         active |-> active_name # NoName /\ active_name = name]]

\* load_configs: the states a load of the document can give; every table
\* has base_url and auth_token strings, so every table is taken
load_document(document) ==
    LET configs == [name \in DOMAIN document |->
                       [base_url |-> document[name].base_url,
                        api_key |-> document[name].api_key,
                        auth_token |-> Some(document[name].auth_token),
                        weight |-> document[name].weight]]
        marked == {name \in DOMAIN document : document[name].active}
    IN {[configs |-> configs, active |-> a] :
           a \in IF marked # {} THEN marked ELSE FirstKeys(configs)}

\* a mutator writes the document
WriteDocument ==
    /\ ~arg.written
    /\ arg' = [arg EXCEPT !.document = save_document(arg.configs, arg.active),
                          !.written = TRUE]
    /\ UNCHANGED <<res, lbVars, fwdVars, hubVars, logVars>>

\* reload
ReloadDocument ==
    /\ arg.written
    /\ res = NotApplied
    /\ \E st \in load_document(arg.document) : res' = Applied(st)
    /\ UNCHANGED <<arg, lbVars, fwdVars, hubVars, logVars>>

InitRoundTrip ==
    /\ InitIdle
    /\ \E st \in MemoryStores :
          arg = [configs |-> st.configs, active |-> st.active,
                 document |-> EmptyMap, written |-> FALSE]
    /\ res = NotApplied

NextRoundTrip == WriteDocument \/ ReloadDocument

SpecRoundTrip == InitRoundTrip /\ [][NextRoundTrip]_vars

\* ---------------------------------------------------------------------------
\* The two balancers of the process (main.rs start_services)
\* ---------------------------------------------------------------------------

\* ProxyService::new builds a LoadBalancer of its own: the claude forwarder
\* holds lb (with fileNewer), the codex forwarder holds lbPeer; both read
\* and write lb_config.toml
Instance(service) ==
    IF service = "claude" THEN [config |-> lb, newer |-> fileNewer] ELSE lbPeer

OtherService(service) == IF service = "claude" THEN "codex" ELSE "claude"

\* the forwarder a request belongs to
ServiceOf(r) == IF r = "r1" THEN "claude" ELSE "codex"

\* the instance of `service` becomes inst, the other one becomes other
InstancesBecome(service, inst, other) ==
    IF service = "claude"
    THEN lb' = inst.config /\ fileNewer' = inst.newer /\ lbPeer' = other
    ELSE lbPeer' = inst /\ lb' = other.config /\ fileNewer' = other.newer

\* record_result, line 236: check_and_reload of the caller's instance
RecordReload(r, config_name, ok) ==
    LET service == ServiceOf(r)
        inst == Instance(service)
    IN /\ pc[r] = "idle"
       /\ Len(recorded[r]) < MaxRecords
       /\ InstancesBecome(service,
                          IF inst.newer THEN [config |-> lbFile, newer |-> FALSE] ELSE inst,
                          Instance(OtherService(service)))
       /\ pc' = [pc EXCEPT ![r] = "update"]
       /\ sel' = [sel EXCEPT ![r] = config_name]
       /\ outcome' = [outcome EXCEPT ![r] =
                         IF ok THEN Responded(200) ELSE Failed("NetworkError")]
       /\ UNCHANGED <<lbFile, now, today, lastCall, streak, streakAt>>
       /\ UNCHANGED <<cfgConfigs, cfgActive, cfgFile, recorded, attempts, returned>>
       /\ UNCHANGED <<hubVars, logVars, pureVars>>

\* record_result, lines 238-278: the update under config.write()
RecordUpdate(r) ==
    LET service == ServiceOf(r)
        inst == Instance(service)
        swept == Swept(inst.config, service)
        config == [swept EXCEPT !.services[service] =
                      RecordOutcome(@, sel[r], success(outcome[r]), now)]
    IN /\ pc[r] = "update"
       /\ InstancesBecome(service, [inst EXCEPT !.config = config],
                          Instance(OtherService(service)))
       /\ streak' = [streak EXCEPT ![service][sel[r]] =
                        IF success(outcome[r]) THEN 0 ELSE @ + 1]
       /\ pc' = [pc EXCEPT ![r] = "write"]
       /\ UNCHANGED <<lbFile, now, today, lastCall, streakAt>>
       /\ UNCHANGED <<cfgConfigs, cfgActive, cfgFile, sel, outcome, recorded, attempts, returned>>
       /\ UNCHANGED <<hubVars, logVars, pureVars>>

\* record_result, line 282: save_config writes the instance's whole state
\* and takes the file's new mtime as last_modified
RecordSave(r) ==
    LET service == ServiceOf(r)
        inst == Instance(service)
    IN /\ pc[r] = "write"
       /\ lbFile' = inst.config
       /\ InstancesBecome(service, [inst EXCEPT !.newer = FALSE],
                          [Instance(OtherService(service)) EXCEPT !.newer = TRUE])
       /\ recorded' = [recorded EXCEPT ![r] = Append(@, sel[r])]
       /\ pc' = [pc EXCEPT ![r] = "idle"]
       /\ UNCHANGED <<now, today, lastCall, streak, streakAt>>
       /\ UNCHANGED <<cfgConfigs, cfgActive, cfgFile, sel, outcome, attempts, returned>>
       /\ UNCHANGED <<hubVars, logVars, pureVars>>

\* a claude request and a codex request record results at the same time
NextShared ==
    \/ \E r \in Requests, n \in Names, ok \in BOOLEAN : RecordReload(r, n, ok)
    \/ \E r \in Requests : RecordUpdate(r)
    \/ \E r \in Requests : RecordSave(r)

InitShared ==
    /\ InitBalancerDefault
    /\ InitRest

SpecShared == InitShared /\ [][NextShared]_vars

\* ---------------------------------------------------------------------------
\* Connectivity self-test (web/web_server.rs)
\* ---------------------------------------------------------------------------

\* a char with the number of bytes of its UTF-8 encoding (char::len_utf8)
Char(c, len_utf8) == [c |-> c, len_utf8 |-> len_utf8]

\* U+2026, three bytes in UTF-8
Ellipsis == Char("ellipsis", 3)

\* the chars of the strings under study, one of every encoded length
Chars == {Char("a", 1), Char("e-acute", 2), Ellipsis, Char("emoji", 4)}

RECURSIVE len(_)
\* str::len: the length in bytes
len(s) == IF s = <<>> THEN 0 ELSE Head(s).len_utf8 + len(Tail(s))

RECURSIVE TruncateLoop(_, _, _)
\* limit_string: the loop over input.chars(), which stops at the first char
\* that does not fit
TruncateLoop(input, truncated, max) ==
    IF input = <<>> \/ len(truncated) + Head(input).len_utf8 > max
    THEN truncated
    ELSE TruncateLoop(Tail(input), Append(truncated, Head(input)), max)

\* limit_string
limit_string(input, max) ==
    IF len(input) <= max
    THEN input
    ELSE LET truncated == TruncateLoop(input, <<>>, max)
         IN IF truncated = <<>>
            THEN IF input # <<>> THEN <<Head(input), Ellipsis>> ELSE <<>>
            ELSE IF len(truncated) < len(input)
                 THEN Append(truncated, Ellipsis)
                 ELSE truncated

\* execute_connectivity_test from the log entry on: the body is limited and
\* the row is inserted (status_code 0 when the request was not answered)
SelfTest(timestamp, status) ==
    /\ res = NotApplied
    /\ logPc["config-test"] = "idle"
    /\ res' = Applied(limit_string(arg.input, arg.max))
    /\ log_request_insert(RequestLog(logInserted + 1, timestamp, "config-test", status))
    /\ logPc' = [logPc EXCEPT !["config-test"] = "trim"]
    /\ UNCHANGED <<arg, lbVars, fwdVars, hubVars>>

\* log_request goes on to maintain_log_limit
SelfTestTrim ==
    /\ LogTrim("config-test")
    /\ UNCHANGED <<lbVars, fwdVars, hubVars, pureVars>>

InitSelfTest ==
    /\ InitIdle
    /\ arg \in [input : SeqsUpTo(Chars, MaxChars), max : 0..MaxLimit]
    /\ res = NotApplied

NextSelfTest ==
    \/ \E t \in 1..MaxStamp, status \in {0, 200} : SelfTest(t, status)
    \/ SelfTestTrim

SpecSelfTest == InitSelfTest /\ [][NextSelfTest]_vars

\* ---------------------------------------------------------------------------
\* Balancer properties
\* ---------------------------------------------------------------------------

\* the contract's eligibility of an upstream for the weight-based scan
Eligible(s, k) ==
    LET sc == lb.services[s]
    IN /\ k \notin Range(sc.excluded_configs)
       /\ ~(k \in DOMAIN sc.current_failures
            /\ sc.current_failures[k] >= sc.failure_threshold)
       /\ ~(k \in DOMAIN sc.manual_disabled_until
            /\ sc.manual_disabled_until[k] = today)

\* n has failure_threshold consecutive failure records, no success since, and
\* auto_reset_minutes have not elapsed since the streak reached the threshold
Obliged(s, n) ==
    LET sc == lb.services[s]
    IN /\ sc.failure_threshold >= 1
       /\ streak[s][n] >= sc.failure_threshold
       /\ \/ sc.auto_reset_minutes = 0
          \/ now < streakAt[s][n] + sc.auto_reset_minutes * SecondsPerMinute

\* the current state is the state a weight-based select on s returned in
WeightedSelectOf(s) ==
    /\ lastCall.op = "select"
    /\ lastCall.service = s
    /\ lb.mode = "weight-based"

\* C1 as stated: after failure_threshold consecutive failure records n is in
\* excluded, and no weight-based select returns n until a success is recorded
\* for n or auto_reset_minutes have elapsed.
C1_Monotonicity_Original ==
    \A s \in Services, n \in Names :
        Obliged(s, n) =>
            /\ n \in Range(lb.services[s].excluded_configs)
            /\ WeightedSelectOf(s) => lastCall.result # n

\* C1 amended: after failure_threshold consecutive failure records n is in
\* excluded, and until a success for n or the elapse of auto_reset_minutes a
\* weight-based select returns n only as its fallback, when no upstream of the
\* pool is eligible.
C1_Monotonicity ==
    \A s \in Services, n \in Names :
        Obliged(s, n) =>
            /\ n \in Range(lb.services[s].excluded_configs)
            /\ (WeightedSelectOf(s) /\ lastCall.result = n) =>
                   \A k \in DOMAIN lastCall.configs : ~Eligible(s, k)

\* a weight-based select passes over an upstream at its threshold for another
C1_Witness ==
    \E n \in Names :
        /\ Obliged("claude", n)
        /\ WeightedSelectOf("claude")
        /\ n \in DOMAIN lastCall.configs
        /\ lastCall.result \in DOMAIN lastCall.configs
        /\ lastCall.result # n

\* n is excluded and its auto-reset time has come
ResetDue(s, n) ==
    LET sc == lb.services[s]
    IN /\ sc.auto_reset_minutes > 0
       /\ n \in Range(sc.excluded_configs)
       /\ n \in DOMAIN sc.excluded_timestamps
       /\ now >= sc.excluded_timestamps[n]
                   + sc.auto_reset_minutes * SecondsPerMinute

\* this step is a select or a record on service s
CallOn(s) ==
    /\ lastCall = NoCall
    /\ lastCall'.op \in {"select", "record"}
    /\ lastCall'.service = s

\* n is neither excluded nor stamped and its failure count is 0 after the step
ResetAfter(s, n) ==
    LET sc == lb'.services[s]
    IN /\ n \notin Range(sc.excluded_configs)
       /\ n \notin DOMAIN sc.excluded_timestamps
       /\ n \in DOMAIN sc.current_failures
       /\ sc.current_failures[n] = 0

\* C7 as stated: the first select or record at a time >= t + 60*m removes n
\* from excluded and excluded_at and sets current_failures[n] to 0.
C7_AutoReset_Original ==
    [][\A s \in Services, n \in Names :
          (ResetDue(s, n) /\ CallOn(s)) => ResetAfter(s, n)]_lbVars

\* C7 amended: the first select or record at a time >= t + 60*m resets n
\* (not excluded, not stamped, count 0), except that a failure record for n
\* itself is counted on the reset state: the count is 1, and n is excluded
\* again, stamped with the time of the call, exactly when the threshold is <= 1.
C7_AutoReset ==
    [][\A s \in Services, n \in Names :
          (ResetDue(s, n) /\ CallOn(s)) =>
              IF lastCall'.op = "record" /\ lastCall'.name = n /\ ~lastCall'.success
              THEN LET sc == lb'.services[s]
                   IN /\ n \in DOMAIN sc.current_failures
                      /\ sc.current_failures[n] = 1
                      /\ n \in Range(sc.excluded_configs) <=> sc.failure_threshold <= 1
                      /\ n \in DOMAIN sc.excluded_timestamps <=> sc.failure_threshold <= 1
                      /\ n \in DOMAIN sc.excluded_timestamps =>
                             sc.excluded_timestamps[n] = now
              ELSE ResetAfter(s, n)]_lbVars

\* a select ran after the reset time, returned the upstream again, and the
\* state file still holds the exclusion the sweep removed
C7_Witness ==
    /\ WeightedSelectOf("claude")
    /\ lastCall.result = "A"
    /\ Eligible("claude", "A")
    /\ "A" \in DOMAIN lb.services["claude"].current_failures
    /\ lb.services["claude"].current_failures["A"] = 0
    /\ "A" \in Range(lbFile.services["claude"].excluded_configs)
    /\ now >= lbFile.services["claude"].excluded_timestamps["A"]
                + lb.services["claude"].auto_reset_minutes * SecondsPerMinute

\* C8: in active-first mode select returns active_name for every pool and
\* every health state.
C8_ActiveFirst ==
    (lastCall.op = "select" /\ lb.mode = "active-first") =>
        lastCall.result = lastCall.name

\* an active-first select returned an excluded name that is not in the pool
C8_Witness ==
    /\ lastCall.op = "select"
    /\ lb.mode = "active-first"
    /\ lastCall.configs # EmptyMap
    /\ lastCall.name \notin DOMAIN lastCall.configs
    /\ lastCall.name \in Range(lb.services[lastCall.service].excluded_configs)
    /\ lastCall.result = lastCall.name

\* C9: a weight-based select over a pool with an eligible upstream returns the
\* first eligible upstream in the order (weight descending, name ascending);
\* equal weights give the smaller name, weights {A: 0.5, B: 1.0} give B.
C9_WeightBased ==
    \A s \in Services :
        WeightedSelectOf(s) =>
            LET configs == lastCall.configs
                r == lastCall.result
                good == {k \in DOMAIN configs : Eligible(s, k)}
            IN /\ good # {} =>
                    /\ r \in good
                    /\ \A k \in good \ {r} :
                          \/ configs[k] < configs[r]
                          \/ configs[k] = configs[r] /\ NameRank(r) < NameRank(k)
               /\ (good = {"A", "B"} /\ configs["A"] = configs["B"]) => r = "A"
               /\ (good = {"A", "B"} /\ configs["A"] = 1 /\ configs["B"] = 2) => r = "B"

\* the heavier upstream is not eligible and the select returned the lighter
C9_Witness ==
    /\ WeightedSelectOf("claude")
    /\ DOMAIN lastCall.configs = {"A", "B"}
    /\ lastCall.configs["A"] > lastCall.configs["B"]
    /\ ~Eligible("claude", "A")
    /\ Eligible("claude", "B")
    /\ lastCall.result = "B"

\* what the balancer holds about upstream a of service s
Entry(config, s, a) ==
    LET sc == config.services[s]
    IN [failures |-> IF a \in DOMAIN sc.current_failures
                     THEN sc.current_failures[a] ELSE -1,
        excluded |-> a \in Range(sc.excluded_configs),
        at |-> IF a \in DOMAIN sc.excluded_timestamps
               THEN sc.excluded_timestamps[a] ELSE -1]

\* C10: record(service, n, outcome) leaves the failure count, the exclusion
\* and the exclusion time of every other upstream of the service unchanged
\* unless that upstream's auto-reset time has come, and leaves every other
\* service family unchanged.
C10_Frame ==
    [][\A s \in Services, n \in Names :
          (CallOn(s) /\ lastCall'.op = "record" /\ lastCall'.name = n) =>
              /\ \A a \in Names \ {n} :
                    ~ResetDue(s, a) => Entry(lb', s, a) = Entry(lb, s, a)
              /\ \A o \in Services \ {s} : lb'.services[o] = lb.services[o]]_lbVars

\* a success was recorded for B while A is excluded and codex has failures
C10_Witness ==
    /\ lastCall.op = "record"
    /\ lastCall.service = "claude"
    /\ lastCall.name = "B"
    /\ lastCall.success
    /\ "A" \in Range(lb.services["claude"].excluded_configs)
    /\ lb.services["claude"].failure_threshold >= 1
    /\ "A" \in Range(lb.services["codex"].excluded_configs)

\* ---------------------------------------------------------------------------
\* Forwarder claims (SpecFwd)
\* ---------------------------------------------------------------------------

\* C2 (failure attribution): the name every record_result call of a request
\* is made with is the name select_config returned for that request.
C2_Attribution ==
    \A r \in Requests : \A i \in 1..Len(recorded[r]) :
        recorded[r][i].name = sel[r]

\* the stages of proxy_handler after handle_request has returned and the
\* balancer block has run
TerminalStage == {"complete", "log", "trim", "done"}

EventsOf(r) == SelectSeq(hubEvents, LAMBDA e : e.request_id = r)

Terminal(e) == e.type \in {"completed", "failed"}

\* C4 (hub per-request event ordering): the first event of a request is
\* started, a terminal event is the last event of its request, and a request
\* whose handler is over and that emitted started has its terminal event.
C4_EventOrder ==
    \A r \in Requests :
        LET events == EventsOf(r)
        IN /\ Len(events) > 0 => events[1].type = "started"
           /\ \A i \in 1..Len(events) : Terminal(events[i]) => i = Len(events)
           /\ (pc[r] \in {"done", "dropped"} /\ Len(events) > 0) =>
                 Terminal(events[Len(events)])

\* ---------------------------------------------------------------------------
\* Hub claims (SpecHub)
\* ---------------------------------------------------------------------------

\* C5 (snapshot on attach): a connection whose snapshot was taken while the
\* requests in attached were PENDING or STREAMING has been sent exactly one
\* snapshot started message for each of them, and no message of the snapshot
\* follows a live message, whatever starts or completes meanwhile.
C5_SnapshotOnAttach ==
    \A s \in Subs :
        LET sent == sub[s].sent
        IN /\ \A r \in sub[s].attached :
                 Cardinality({i \in 1..Len(sent) :
                     sent[i] = Message("snapshot", Event("started", r, 0))}) = 1
           /\ \A i, j \in 1..Len(sent) :
                 (i < j /\ sent[j].from = "snapshot") => sent[i].from = "snapshot"

\* both requests were active at the snapshot, one of them STREAMING, and
\* live messages, a terminal one among them, followed the snapshot
C5_Witness ==
    \E s \in Subs :
        /\ sub[s].attached = Requests
        /\ \E r \in Requests :
              \E i \in 1..Len(hubEvents) :
                 /\ hubEvents[i] = Event("progress", r, 0)
                 /\ \E j \in 1..Len(sub[s].sent) :
                       /\ sub[s].sent[j].from = "live"
                       /\ Terminal(sub[s].sent[j].event)
                       /\ sub[s].sent[j].event.request_id = r
        /\ \E j \in 1..Len(sub[s].sent) :
              sub[s].sent[j] = Message("live", Event("started", "r2", 0))

\* ---------------------------------------------------------------------------
\* Ledger claims (SpecLedger)
\* ---------------------------------------------------------------------------

\* every log_request call has run its maintain_log_limit
Quiescent == \A w \in LogWriters : logPc[w] = "idle"

\* the ledger holds exactly max rows, none older than an evicted row
Retained ==
    /\ Cardinality(logRows) = logMax
    /\ \A k \in logRows, e \in logEvicted : k.timestamp >= e.timestamp

\* a get_logs call returned every row of the ledger, newest first
ListedAll(list) ==
    /\ list.ok
    /\ Len(list.rows) = logMax
    /\ {list.rows[i] : i \in 1..Len(list.rows)} = logRows
    /\ \A i, j \in 1..Len(list.rows) :
          i < j => list.rows[i].timestamp >= list.rows[j].timestamp

\* C6 (ledger retention): once more than max rows have been inserted by
\* completed log_request calls the ledger holds exactly max rows, each with a
\* timestamp not older than that of any evicted row, and get_logs(10, 0) then
\* returns exactly these max rows, newest first.
C6_Retention ==
    /\ []((Quiescent /\ logInserted > logMax) => Retained)
    /\ [][(/\ Quiescent
           /\ logInserted > logMax
           /\ logList' # logList
           /\ logList'.limit >= logMax
           /\ logList'.offset = 0) => ListedAll(logList')]_vars

\* the retention half of C6 alone
C6_RetainedOnly == (Quiescent /\ logInserted > logMax) => Retained

\* the ledger with max 3 after a 4th insert, a row evicted, listed in full
C6_Listed ==
    /\ Quiescent
    /\ logMax = 3
    /\ logInserted = 4
    /\ Cardinality(logEvicted) = 1
    /\ logList.called /\ ListedAll(logList)

\* ---------------------------------------------------------------------------
\* Manual disable (SpecDay)
\* ---------------------------------------------------------------------------

\* the manual_disabled_until entries of s dated today
DisabledToday(s) ==
    LET m == lb.services[s].manual_disabled_until
    IN [n \in {k \in DOMAIN m : m[k] = today} |-> m[n]]

\* C11 (manual-disable expiry): a select or record on a service leaves in
\* manual_disabled_until exactly the entries dated today, so an entry of
\* another day is removed by the next call and an entry of today survives
\* every call of that day; a weight-based select returns an upstream disabled
\* today only when its scan found no eligible upstream in the pool.
C11_ManualExpiry ==
    [][\A s \in Services :
          CallOn(s) =>
             /\ lb'.services[s].manual_disabled_until = DisabledToday(s)
             /\ \A n \in DOMAIN DisabledToday(s) :
                   (/\ lastCall'.op = "select"
                    /\ lb'.mode = "weight-based"
                    /\ lastCall'.result = n) =>
                       \A k \in DOMAIN lastCall'.configs : ~Eligible(s, k)']_vars

\* after midnight a weight-based select has dropped the entry of "B" dated
\* two days back, kept the entry of "A" that became today's, and passed
\* over "A" for "B"
C11_Witness ==
    /\ today = 2
    /\ lastCall.op = "select"
    /\ lb.mode = "weight-based"
    /\ lb.services["claude"].manual_disabled_until = [k \in {"A"} |-> 2]
    /\ lastCall.result = "B"

\* ---------------------------------------------------------------------------
\* Forwarder claims, continued (SpecFwd)
\* ---------------------------------------------------------------------------

\* the terminal event of r, once request_completed has run for it
TerminalOf(r) == LET events == EventsOf(r) IN events[Len(events)]

\* the handler of r runs its balancer block in this step
Records(r) == pc[r] = "record" /\ pc'[r] = "complete"

\* the record_result of r counted one failure on name and nothing else
CountedOn(name) ==
    /\ FailureCount(lb', "claude", name) = FailureCount(lb, "claude", name) + 1
    /\ \A k \in Names \ {name} :
          FailureCount(lb', "claude", k) = FailureCount(lb, "claude", k)

\* C12 (upstream error pass-through): a request whose selected upstream
\* answers 500 gives the client 500, raises the failure count of the selected
\* upstream by exactly 1 and ends in a failed event; every terminal event is
\* completed exactly when 200 <= status < 400.
C12_PassThrough ==
    /\ [](\A r \in Requests :
             pc[r] \in {"log", "trim", "done"} =>
                /\ outcome[r] = Responded(500) =>
                      /\ into_response(outcome[r]) = 500
                      /\ TerminalOf(r) = Event("failed", r, 500)
                /\ (TerminalOf(r).type = "completed") <=>
                      (status_code(outcome[r]) >= 200 /\ status_code(outcome[r]) < 400))
    /\ [][\A r \in Requests :
             (Records(r) /\ outcome[r] = Responded(500)) => CountedOn(sel[r])]_vars

\* C12 for the requests whose selected upstream is the active one
C12_WhenActiveSelected ==
    /\ [](\A r \in Requests :
             pc[r] \in {"log", "trim", "done"} =>
                /\ outcome[r] = Responded(500) =>
                      /\ into_response(outcome[r]) = 500
                      /\ TerminalOf(r) = Event("failed", r, 500)
                /\ (TerminalOf(r).type = "completed") <=>
                      (status_code(outcome[r]) >= 200 /\ status_code(outcome[r]) < 400))
    /\ [][\A r \in Requests :
             (Records(r) /\ outcome[r] = Responded(500) /\ sel[r] = cfgActive) =>
                CountedOn(sel[r])]_vars

\* the client of r went away while its request was in flight upstream
DroppedInFlight(r) == pc[r] = "dropped" /\ sel[r] # NoName

\* C13 (client disconnect): a request whose client disconnects while it is in
\* flight eventually has a failed event on the hub and a failure recorded for
\* the upstream it was sent to, so no started request stays without terminal
\* event.
C13_Disconnect ==
    \A r \in Requests :
        DroppedInFlight(r) ~>
            /\ Len(EventsOf(r)) > 0
            /\ TerminalOf(r).type = "failed"
            /\ recorded[r] = <<[name |-> sel[r], success |-> FALSE]>>

\* C14 (no retry): a request makes at most one balancer selection and at
\* most one outbound dispatch, and the upstream selected for it never changes
\* once chosen; the failure of one request shows only in the selection made
\* for another.
C14_NoRetry ==
    /\ [](\A r \in Requests : attempts[r].selects <= 1 /\ attempts[r].sends <= 1)
    /\ [][\A r \in Requests : sel[r] # NoName => sel'[r] = sel[r]]_vars

\* a request sent to "A" failed on the network after its one dispatch, and
\* the other request was then sent to "B"
C14_Witness ==
    \E r, q \in Requests :
        /\ pc[r] = "done" /\ pc[q] = "done"
        /\ outcome[r] = Failed("NetworkError")
        /\ attempts[r] = [selects |-> 1, sends |-> 1]
        /\ sel[r] = "A" /\ sel[q] = "B"
        /\ cfgConfigs["A"] > cfgConfigs["B"]

\* ---------------------------------------------------------------------------
\* Header claims (SpecOutbound, SpecInbound)
\* ---------------------------------------------------------------------------

\* the values the outbound headers carry under a name
Carried(name) == IF name \in DOMAIN res.value THEN res.value[name] ELSE <<>>

\* C15 (header hygiene): the outbound headers built from any inbound headers
\* carry under x-api-key exactly the descriptor's api_key, and nothing when it
\* has none, and under authorization exactly Bearer auth_token, and nothing
\* when it has none; no credential sent by the client is carried.
C15_HeaderHygiene ==
    res.applied =>
        /\ Carried("x-api-key") =
              IF arg.config.api_key # NoName THEN <<arg.config.api_key>> ELSE <<>>
        /\ Carried("authorization") =
              IF arg.config.auth_token # NoName
              THEN <<Bearer(arg.config.auth_token)>> ELSE <<>>

\* the client sent both credentials, the descriptor has only an api_key, and
\* the outbound headers were built with the client's accept header kept
C15_Witness ==
    /\ res.applied
    /\ arg.headers = <<Header("authorization", "c1"), Header("accept", "c2")>>
    /\ arg.config.api_key = "K" /\ arg.config.auth_token = NoName
    /\ Carried("accept") = <<"c2">>

\* the values the upstream sent under a name, in order
SentUnder(name) ==
    LET lines == SelectSeq(arg, LAMBDA h : h.name = name)
    IN [i \in 1..Len(lines) |-> lines[i].value]

\* C16 (response header pass-through): the response carries no connection,
\* transfer-encoding or content-length header of the upstream, and under
\* every other name exactly the values the upstream sent, repeated ones
\* included, in their order.
C16_ResponseHeaders ==
    res.applied =>
        /\ DOMAIN res.value = {arg[i].name : i \in 1..Len(arg)} \ Stripped
        /\ \A name \in DOMAIN res.value : res.value[name] = SentUnder(name)

\* an upstream answer with a repeated set-cookie passed through, both values
C16_Witness ==
    /\ res.applied
    /\ arg = <<Header("set-cookie", "v1"), Header("set-cookie", "v2")>>
    /\ res.value = [k \in {"set-cookie"} |-> <<"v1", "v2">>]

\* an upstream answer with content-length passed through without it
C16_WitnessStripped ==
    /\ res.applied
    /\ arg = <<Header("content-length", "v1"), Header("content-type", "v2")>>
    /\ DOMAIN res.value = {"content-type"}

\* ---------------------------------------------------------------------------
\* Streaming classification claims (SpecClassify)
\* ---------------------------------------------------------------------------

\* the three indicators C17 names
Indicated ==
    \/ arg.accept = EventStream
    \/ arg.content_type = NdJson
    \/ arg.helper = CreateAndStream

\* C17 as stated: accept text/event-stream, content-type application/x-ndjson
\* and x-stainless-helper-method createAndStream each make the request
\* streaming, and a request with none of them is buffered.
C17_Streaming_Original ==
    res.applied => (res.value <=> Indicated)

\* C17 (streaming classification): a request is classified as streaming
\* exactly when its accept header contains text/event-stream or
\* application/x-ndjson, or its content-type contains "stream", or its
\* x-stainless-helper-method contains "stream" in any letter case.
C17_Streaming ==
    res.applied =>
        (res.value <=>
            \/ arg.accept \in {EventStream, NdJson}
            \/ arg.content_type \in {EventStream, OctetStream}
            \/ arg.helper \in {EventStream, OctetStream, CreateAndStream})

\* a request with content-type application/x-ndjson alone was classified as
\* buffered
C17_Witness ==
    /\ res.applied
    /\ arg = [accept |-> Absent, content_type |-> NdJson, helper |-> Absent]
    /\ ~res.value

\* ---------------------------------------------------------------------------
\* Usage extraction claims (SpecUsage, SpecSse)
\* ---------------------------------------------------------------------------

\* the claude half of C18: input_tokens and output_tokens give prompt,
\* completion and their sum
ClaudeUsageOf(json) ==
    (json.usage.input_tokens.kind = "u64" /\ json.usage.output_tokens.kind = "u64") =>
        /\ res.value.some
        /\ res.value.prompt_tokens = json.usage.input_tokens.n
        /\ res.value.completion_tokens = json.usage.output_tokens.n
        /\ res.value.total_tokens =
              json.usage.input_tokens.n + json.usage.output_tokens.n

\* the codex half of C18: prompt_tokens and completion_tokens give prompt
\* and completion, total is total_tokens when present and their sum when not
CodexUsageOf(json) ==
    (/\ json.usage.prompt_tokens.kind = "u64"
     /\ json.usage.completion_tokens.kind = "u64"
     /\ json.usage.total_tokens.kind \in {"u64", "missing"}) =>
        /\ res.value.some
        /\ res.value.prompt_tokens = json.usage.prompt_tokens.n
        /\ res.value.completion_tokens = json.usage.completion_tokens.n
        /\ res.value.total_tokens =
              IF json.usage.total_tokens.kind = "u64"
              THEN json.usage.total_tokens.n
              ELSE json.usage.prompt_tokens.n + json.usage.completion_tokens.n

\* C18 (usage of a single JSON document with a usage object): for claude
\* prompt, completion and total are input_tokens, output_tokens and their
\* sum; for codex they are prompt_tokens, completion_tokens and total_tokens,
\* or the sum of the two when total_tokens is absent, in which case usage is
\* still reported.
C18_JsonUsage ==
    (res.applied /\ arg.json.has_usage) =>
        IF arg.service = "claude"
        THEN ClaudeUsageOf(arg.json)
        ELSE CodexUsageOf(arg.json)

\* the claude half of C18 alone
C18_ClaudeOnly ==
    (res.applied /\ arg.json.has_usage /\ arg.service = "claude") =>
        ClaudeUsageOf(arg.json)

\* what a member contributes to a sum: its number, nothing when it is missing
Contribution(v) == IF v.kind = "u64" THEN v.n ELSE 0

\* a data line whose document carries some usage member of the codex family
CarriesUsage(line) ==
    /\ line.kind = "data"
    /\ line.json.has_usage
    /\ \E f \in {"prompt_tokens", "completion_tokens", "total_tokens"} :
          line.json.usage[f].kind = "u64"

RECURSIVE SumOver(_, _)
\* the sum of one usage member over the lines that carry usage
SumOver(stream, f) ==
    IF stream = <<>> THEN 0
    ELSE (IF CarriesUsage(Head(stream))
          THEN Contribution(Head(stream).json.usage[f]) ELSE 0)
         + SumOver(Tail(stream), f)

RECURSIVE LastModel(_, _)
\* the last non-empty model string of the lines that carry usage
LastModel(stream, sofar) ==
    IF stream = <<>> THEN sofar
    ELSE LastModel(Tail(stream),
                   IF /\ CarriesUsage(Head(stream))
                      /\ Head(stream).json.model.kind = "str"
                      /\ Head(stream).json.model.s # ""
                   THEN Head(stream).json.model.s ELSE sofar)

\* the two codex frames of the example
ExampleStream == <<DataLine(PromptOnly), DataLine(CompletionAndTotal)>>

\* the sums and the model of C19
C19_Sums ==
    (/\ res.applied
     /\ arg.service = "codex"
     /\ \E i \in DOMAIN arg.stream : CarriesUsage(arg.stream[i])) =>
        /\ res.value.some
        /\ res.value.prompt_tokens = SumOver(arg.stream, "prompt_tokens")
        /\ res.value.completion_tokens = SumOver(arg.stream, "completion_tokens")
        /\ res.value.total_tokens = SumOver(arg.stream, "total_tokens")
        /\ LastModel(arg.stream, "") # "" =>
              res.value.model = LastModel(arg.stream, "")

\* the example of C19
C19_Example ==
    (res.applied /\ arg.service = "codex" /\ arg.stream = ExampleStream) =>
        res.value = UsageMetrics(5, 15, 20, "gpt-4")

\* C19 (usage of an SSE body): for codex the result sums prompt, completion
\* and total over all data frames that carry any usage member and takes the
\* last non-empty model string; the two frames {prompt_tokens 5} and
\* {completion_tokens 15, total_tokens 20, model gpt-4} yield 5, 15, 20, gpt-4.
C19_SseUsage == C19_Sums /\ C19_Example

\* over frames that each carry all three members and a model, the sums and
\* the last model are as C19 says
C19_CompleteFrames ==
    (/\ res.applied
     /\ arg.service = "codex"
     /\ arg.stream # <<>>
     /\ \A i \in DOMAIN arg.stream :
           /\ arg.stream[i].kind = "data"
           /\ extract_openai_usage(arg.stream[i].json).some
           /\ arg.stream[i].json.model.kind = "str") =>
        /\ res.value.some
        /\ res.value.prompt_tokens = SumOver(arg.stream, "prompt_tokens")
        /\ res.value.completion_tokens = SumOver(arg.stream, "completion_tokens")
        /\ res.value.total_tokens = SumOver(arg.stream, "total_tokens")
        /\ res.value.model = LastModel(arg.stream, "")

\* ---------------------------------------------------------------------------
\* Configuration store claims (SpecStore)
\* ---------------------------------------------------------------------------

\* C20 (active-upstream invariant of the ConfigStore): after any sequence of
\* add, remove, activate and reload, a non-empty pool has an active name
\* that is a member of the pool, and an empty pool has none.
C20_ActiveInvariant ==
    IF DOMAIN cfgConfigs = {}
    THEN cfgActive = NoName
    ELSE cfgActive \in DOMAIN cfgConfigs

\* the active name is never a name outside the pool
C20_ActiveIsMember == cfgActive # NoName => cfgActive \in DOMAIN cfgConfigs

\* removing the active upstream promotes a remaining one when there is one
C20_RemovePromotes ==
    [][(RemoveConfig /\ arg'.name = cfgActive /\ DOMAIN cfgConfigs' # {}) =>
          cfgActive' \in DOMAIN cfgConfigs']_vars

\* a reload restores the invariant
C20_ReloadRestores == [][Reload => C20_ActiveInvariant']_vars

\* ---------------------------------------------------------------------------
\* Ledger rows of the forwarder (SpecFwd)
\* ---------------------------------------------------------------------------

\* the request was sent to an upstream and its handler has just inserted
\* its ledger row
Forwarded(r) == pc[r] = "trim" /\ attempts[r].sends = 1

\* the ledger rows of request r
RowsOf(r) == {row \in logRows : row.id = r}

\* every forwarded request has exactly one ledger row, and no request ever
\* has two
C21_OneRow ==
    \A r \in Requests :
        /\ Cardinality(RowsOf(r)) <= 1
        /\ Forwarded(r) => Cardinality(RowsOf(r)) = 1

\* C21 (ledger channel): every forwarded request writes exactly one ledger
\* row, and the row's channel is the name of the upstream selected for the
\* request.
C21_LedgerChannel ==
    \A r \in Requests :
        Forwarded(r) =>
            /\ Cardinality(RowsOf(r)) = 1
            /\ \A row \in RowsOf(r) : row.channel = sel[r]

\* ---------------------------------------------------------------------------
\* Failures of the ledger and of the balancer's state file (SpecFault)
\* ---------------------------------------------------------------------------

\* C22 (ledger and balancer failures do not reach the client): when the
\* upstream answered with status s the client receives s, whether or not
\* log_request or the balancer's save_config failed.
C22_FailuresMasked ==
    \A r \in Requests :
        (pc[r] = "done" /\ outcome[r].kind = "response") =>
            returned[r] = [error |-> "none", status |-> outcome[r].status]

\* the upstream answered 200, the balancer's save failed (the state file
\* still lacks the count of A), the ledger insert failed (no row), and the
\* client has its 200
C22_Witness ==
    /\ pc["r1"] = "done"
    /\ outcome["r1"] = Responded(200)
    /\ recorded["r1"] # <<>>
    /\ "A" \notin DOMAIN lbFile.services["claude"].current_failures
    /\ RowsOf("r1") = {}
    /\ returned["r1"].status = 200

\* the same with the insert done and maintain_log_limit failing or not
C22_WitnessLogged ==
    /\ pc["r1"] = "done"
    /\ outcome["r1"] = Responded(500)
    /\ RowsOf("r1") # {}
    /\ returned["r1"].status = 500

\* ---------------------------------------------------------------------------
\* Error taxonomy of the forwarder (SpecFwd)
\* ---------------------------------------------------------------------------

\* the handler of r has returned to the client
Answered(r) == pc[r] \in {"done", "rejected"}

C23_WitnessLocal ==
    /\ cfgActive = NoName
    /\ pc["r1"] = "done"
    /\ returned["r1"].error = "ConfigurationError"
    /\ pc["r2"] = "rejected"

\* ---------------------------------------------------------------------------
\* Ledger reads (SpecLedger)
\* ---------------------------------------------------------------------------

\* list is the page (limit, offset) of the rows in some timestamp-descending
\* order
ListedPage(list, rows) ==
    /\ list.ok
    /\ \E ordered \in NewestFirst(rows) :
          list.rows = Page(ordered, list.limit, list.offset)

\* C24 (ledger reads): in every ledger state reachable through log_request,
\* with rows of the forwarder and rows of the connectivity self-test,
\* get_logs(limit, offset) succeeds and returns the rows ordered by timestamp
\* descending, skipping offset rows and returning at most limit.
C24_LedgerReads == [][logList' # logList => ListedPage(logList', logRows)]_vars

\* on ledgers holding only rows of the forwarder the list is as C24 says
C24_ForwarderRowsOnly ==
    [][(logList' # logList /\ \A row \in logRows : ~row.request_body) =>
          ListedPage(logList', logRows)]_vars

\* ---------------------------------------------------------------------------
\* Balancer invariants (SpecSel)
\* ---------------------------------------------------------------------------

\* C25 (excluded and excluded_at agree): in every reachable state, for every
\* service the names in excluded_configs are the keys of
\* excluded_timestamps, and excluded_configs holds no name twice.
C25_ExcludedKeys ==
    \A s \in Services :
        LET sc == lb.services[s]
        IN /\ Range(sc.excluded_configs) = DOMAIN sc.excluded_timestamps
           /\ \A i, j \in 1..Len(sc.excluded_configs) :
                 sc.excluded_configs[i] = sc.excluded_configs[j] => i = j

\* both upstreams excluded while the sweep is enabled, A after the first
\* reset period has passed
C25_Witness ==
    LET sc == lb.services["claude"]
    IN /\ Range(sc.excluded_configs) = Names
       /\ sc.auto_reset_minutes > 0
       /\ sc.excluded_timestamps["A"] >= sc.auto_reset_minutes * SecondsPerMinute

\* n's failure count has reached the threshold of s
AtThreshold(s, n) ==
    LET sc == lb.services[s]
    IN n \in DOMAIN sc.current_failures
       /\ sc.current_failures[n] >= sc.failure_threshold

\* C26 (threshold implies exclusion): in every state reachable by select and
\* record, for every failure_threshold, 0 and 1 included, an upstream whose
\* current_failures has reached failure_threshold is in excluded_configs.
C26_ThresholdExcludes ==
    \A s \in Services, n \in Names :
        AtThreshold(s, n) => n \in Range(lb.services[s].excluded_configs)

\* the same for thresholds of 1 and more
C26_PositiveThreshold ==
    \A s \in Services, n \in Names :
        (lb.services[s].failure_threshold >= 1 /\ AtThreshold(s, n)) =>
            n \in Range(lb.services[s].excluded_configs)

\* with threshold 0 a weight-based select passes over an upstream that is
\* not excluded, for its failure count of 0
C26_SkippedUnexcluded ==
    /\ WeightedSelectOf("claude")
    /\ lb.services["claude"].failure_threshold = 0
    /\ lb.services["claude"].excluded_configs = <<>>
    /\ lb.services["claude"].manual_disabled_until = EmptyMap
    /\ lastCall.configs = [k \in Names |-> IF k = "A" THEN 2 ELSE 1]
    /\ lastCall.result = "B"

\* ---------------------------------------------------------------------------
\* Weight-based fallback (SpecWeighted)
\* ---------------------------------------------------------------------------

\* no upstream of the non-empty pool of the call qualifies
NoneQualifies ==
    /\ DOMAIN arg.configs # {}
    /\ \A k \in DOMAIN arg.configs : Skipped(arg.service_config, k, today)

\* the name of the pool that is first by name
FirstByName(configs) ==
    CHOOSE n \in DOMAIN configs : \A m \in DOMAIN configs : NameRank(n) <= NameRank(m)

\* the name of the pool with the greatest weight, the first by name among
\* those of equal weight
FirstByWeight(configs) ==
    CHOOSE n \in DOMAIN configs :
        \A m \in DOMAIN configs \ {n} :
            \/ configs[n] > configs[m]
            \/ configs[n] = configs[m] /\ NameRank(n) < NameRank(m)

\* C27 as stated: when no upstream of a non-empty pool qualifies, select
\* returns active_name if it is in the pool and otherwise the
\* lexicographically first name of the pool, whatever the weights.
C27_Fallback_Original ==
    (res.applied /\ NoneQualifies) =>
        res.value = IF arg.active_config \in DOMAIN arg.configs
                    THEN arg.active_config
                    ELSE FirstByName(arg.configs)

\* C27 amended: when no upstream of a non-empty pool qualifies, select
\* returns active_name if it is in the pool and otherwise the name of the
\* greatest weight, the lexicographically first among equal weights.
C27_Fallback ==
    (res.applied /\ NoneQualifies) =>
        res.value = IF arg.active_config \in DOMAIN arg.configs
                    THEN arg.active_config
                    ELSE FirstByWeight(arg.configs)

\* no upstream qualifies, the active name is not in the pool, and the
\* heavier B is returned before A
C27_Witness ==
    /\ res.applied
    /\ NoneQualifies
    /\ arg.active_config = "C"
    /\ arg.configs = [k \in Names |-> IF k = "A" THEN 1 ELSE 2]
    /\ res.value = "B"

\* no upstream qualifies and the active name, the lighter one, is returned
C27_WitnessActive ==
    /\ res.applied
    /\ NoneQualifies
    /\ arg.active_config = "A"
    /\ arg.configs = [k \in Names |-> IF k = "A" THEN 1 ELSE 2]
    /\ res.value = "A"

\* this step is a record of a success for n of s
SuccessRecorded(s, n) ==
    /\ lastCall = NoCall
    /\ lastCall'.op = "record"
    /\ lastCall'.service = s
    /\ lastCall'.name = n
    /\ lastCall'.success

\* C28 (no sweep when auto_reset_minutes = 0): an excluded upstream stays in
\* excluded_configs and keeps its failure count, which only failure records
\* raise, through every select, failure record and passage of time, until a
\* success is recorded for it.
C28_NoSweepAtZero ==
    [][\A s \in Services, n \in Names :
          (/\ lb.services[s].auto_reset_minutes = 0
           /\ n \in Range(lb.services[s].excluded_configs)
           /\ ~SuccessRecorded(s, n)) =>
              /\ n \in Range(lb'.services[s].excluded_configs)
              /\ FailureCount(lb', s, n) >= FailureCount(lb, s, n)
              /\ lastCall'.op # "record" =>
                    FailureCount(lb', s, n) = FailureCount(lb, s, n)]_vars

\* A was excluded at time 0, a minute has passed (the reset period of
\* auto_reset_minutes = 1), and a select has run since with A still excluded
C28_Witness ==
    LET sc == lb.services["claude"]
    IN /\ sc.auto_reset_minutes = 0
       /\ sc.failure_threshold >= 1
       /\ "A" \in Range(sc.excluded_configs)
       /\ sc.excluded_timestamps["A"] = 0
       /\ now >= SecondsPerMinute
       /\ lastCall.op = "select"

\* ---------------------------------------------------------------------------
\* Ledger insert and trim under concurrency (SpecLedger)
\* ---------------------------------------------------------------------------

\* C29 (insert and trim are one critical section): under any interleaving of
\* log_request calls and reads, no get_logs observes a ledger holding more
\* than max rows.
C29_AtomicTrim ==
    [][logList' # logList =>
          /\ Cardinality(logRows) <= logMax
          /\ Len(logList'.rows) <= logMax]_vars

\* when no log_request is between its insert and its trim, the ledger holds
\* at most max rows
C29_QuiescentBound == Quiescent => Cardinality(logRows) <= logMax

\* a get_logs between the insert and the trim of a log_request returned
\* more than max rows
C29_Overfull ==
    /\ ~Quiescent
    /\ logList.called /\ logList.ok
    /\ Len(logList.rows) > logMax

\* ---------------------------------------------------------------------------
\* Hub capacity (SpecCap)
\* ---------------------------------------------------------------------------

\* after is what is left of before, cut to the HubCap entries of the latest
\* start_time
TrimmedTo(before, after) ==
    /\ DOMAIN after \subseteq DOMAIN before
    /\ Cardinality(DOMAIN after) = HubCap
    /\ \A k \in DOMAIN after : after[k] = before[k]
    /\ \A k \in DOMAIN after, d \in (DOMAIN before) \ (DOMAIN after) :
          before[k].start_time >= before[d].start_time

\* C30 (hub capacity): when a request_started call returns the table holds at
\* most 100 entries, and if it had more the entries kept are the 100 of the
\* latest start_time; under concurrent calls the table holds at most 100
\* entries whenever no request_started is in progress.
C30_HubCapacity ==
    /\ [][\A r \in Requests :
             HubEmit(r) =>
                /\ Cardinality(DOMAIN hubTable') <= HubCap
                /\ Cardinality(DOMAIN hubTable) > HubCap =>
                      TrimmedTo(hubTable, hubTable')]_vars
    /\ []((\A r \in Requests : pc[r] # "emit") =>
             Cardinality(DOMAIN hubTable) <= HubCap)

\* both calls have returned on a table that was full: the two oldest
\* entries are gone, the two new ones are among the 100 kept
C30_Witness ==
    /\ \A r \in Requests : pc[r] = "running"
    /\ Cardinality(DOMAIN hubTable) = HubCap
    /\ Requests \subseteq DOMAIN hubTable
    /\ "1" \notin DOMAIN hubTable
    /\ "2" \notin DOMAIN hubTable

\* of two oldest entries of the same instant the first was kept and the
\* second removed
C30_WitnessTie ==
    /\ Cardinality(DOMAIN hubTable) = HubCap
    /\ "1" \in DOMAIN hubTable
    /\ "2" \notin DOMAIN hubTable

\* both calls have inserted and none has cleaned up: 102 entries
C30_WitnessBothInserted ==
    /\ \A r \in Requests : pc[r] = "emit"
    /\ Cardinality(DOMAIN hubTable) = HubCap + 2

\* ---------------------------------------------------------------------------
\* Hub retention (SpecRetain)
\* ---------------------------------------------------------------------------

\* the entry of r has a terminal status
TerminalEntry(r) ==
    r \in DOMAIN hubTable /\ hubTable[r].status \in {"COMPLETED", "FAILED"}

\* the removal of r's entry is due after the last instant the clock reaches
BeyondHorizon(r) == r \in DOMAIN hubTimers /\ hubTimers[r] > MaxNow

\* a terminal entry is in the table until 30 s after its terminal event
C31_RetainedUntilDue ==
    \A r \in Requests :
        (r \in DOMAIN hubTimers /\ now < hubTimers[r]) => TerminalEntry(r)

\* a terminal entry is removed once its 30 s are over
C31_TerminalRemoved ==
    \A r \in Requests :
        (TerminalEntry(r) /\ ~BeyondHorizon(r)) ~> (r \notin DOMAIN hubTable)

\* C31 (hub retention): an entry that reached COMPLETED or FAILED stays in
\* the active table for 30 s after its terminal event and is then removed,
\* and every entry ever inserted into the active table is eventually removed
\* from it (removals due after the clock's horizon MaxNow are left out).
C31_Retention ==
    /\ []C31_RetainedUntilDue
    /\ \A r \in Requests :
          (r \in DOMAIN hubTable) ~> (r \notin DOMAIN hubTable \/ BeyondHorizon(r))

\* a terminal entry was retained while the clock advanced, and was removed
C31_WitnessRetained ==
    /\ now > 0
    /\ TerminalEntry("r1")
    /\ now < hubTimers["r1"]

C31_WitnessRemoved ==
    /\ pc["r1"] = "done"
    /\ \E i \in 1..Len(hubEvents) : Terminal(hubEvents[i])
    /\ "r1" \notin DOMAIN hubTable

\* the entry of a request whose client disconnected
C31_WitnessLeak ==
    /\ pc["r1"] = "dropped"
    /\ now = MaxNow
    /\ "r1" \in DOMAIN hubTable
    /\ hubTable["r1"].status = "PENDING"

\* ---------------------------------------------------------------------------
\* Subscriber overflow (SpecLag)
\* ---------------------------------------------------------------------------

\* a send to a receiver whose queue is full drops its oldest unread event
\* and nothing else
DropsOldestOnly ==
    \A s \in Subs :
        (sub[s].phase = "live" /\ sub'[s].phase = "live" /\ hubEvents' # hubEvents
         /\ Len(Unread(sub[s].rx)) = ChannelCapacity)
        => Unread(sub'[s].rx)
             = Append(Tail(Unread(sub[s].rx)), hubEvents'[Len(hubEvents')])

\* C32 (subscriber overflow): a subscriber more than 1000 events behind loses
\* only its oldest undelivered events, and a connection ends only because
\* one side closed it or a send to it failed.
C32_Overflow ==
    /\ [][DropsOldestOnly]_vars
    /\ [](\A s \in Subs : sub[s].phase = "closed" => sub[s].end \in {"peer", "send"})

C32_DropsOldest == [][DropsOldestOnly]_vars

\* the receiver overflowed and its connection was ended by the Lagged error
C32_WitnessLagged ==
    \E s \in Subs :
        /\ sub[s].phase = "closed"
        /\ sub[s].end = "lagged"
        /\ Len(hubEvents) > ChannelCapacity

\* the receiver overflowed and its connection is still open
C32_WitnessOverflow ==
    \E s \in Subs :
        /\ sub[s].phase = "live"
        /\ Len(sub[s].rx) > 0
        /\ Head(sub[s].rx) = Lagged
        /\ Len(Unread(sub[s].rx)) = ChannelCapacity

\* ---------------------------------------------------------------------------
\* Slow subscribers (SpecStall)
\* ---------------------------------------------------------------------------

\* C33 (a slow subscriber never blocks the data plane): whatever a connection
\* does, every call of the hub's request API made for a request returns, so
\* every request gets through request_started and request_completed.
C33_NonBlocking == \A r \in Requests : <>(pc[r] = "finished")

\* a connection that has the snapshot and reads no live event blocks nothing
C33_LiveNeverBlocks ==
    \A r \in Requests :
        [](ENABLED (HubStart(r) \/ HubEmit(r) \/ HubComplete(r, TRUE))
             <=> (pc[r] \in {"start", "emit", "running"} /\ ~ReadLocked))

\* a request waits for the write lock while a connection's snapshot holds
\* the read lock
C33_WitnessBlocked ==
    /\ ReadLocked
    /\ \E r \in Requests : pc[r] = "running" /\ r \in DOMAIN hubTable
    /\ \E r \in Requests : pc[r] = "start"

\* both requests finished while a live connection had read none of its events
C33_WitnessLiveStalled ==
    /\ \A r \in Requests : pc[r] = "finished"
    /\ \E s \in Subs : sub[s].phase = "live" /\ Len(sub[s].rx) >= 4

\* ---------------------------------------------------------------------------
\* Config store calls (SpecStore)
\* ---------------------------------------------------------------------------

\* the saved document marks `name`, and no other upstream, active
MarksExactly(file, name) == \A n \in DOMAIN file : file[n].active <=> n = name

C34_WitnessAbsent ==
    /\ arg.op = "activate"
    /\ res = Applied("Err")
    /\ arg.name \notin DOMAIN cfgConfigs
    /\ cfgActive # arg.name

\* ---------------------------------------------------------------------------
\* Config store under concurrent callers (SpecRace)
\* ---------------------------------------------------------------------------

\* every call has returned
AllReturned == \A t \in Callers : pc[t] \in {"returned", "failed"}

\* a caller inside a call can take its next step: no caller waits for a lock
\* that is never released
C35_NoDeadlock ==
    \A t \in Callers : pc[t] \notin {"idle", "returned", "failed"} => ENABLED CallerNext(t)

\* once all calls have returned and one of them saved, the document is the
\* in-memory state
C35_DocumentMatches ==
    (AllReturned /\ \E t \in Callers : pc[t] = "returned")
    => cfgFile = save_configs(cfgConfigs, cfgActive)

\* C35 (atomic mutators): under every interleaving of concurrent add, remove
\* and activate no execution deadlocks, and once all calls have returned the
\* active name is none or a member of the pool and the document equals the
\* in-memory state.
C35_Atomic ==
    /\ C35_NoDeadlock
    /\ C35_DocumentMatches
    /\ AllReturned => (cfgActive = NoName \/ cfgActive \in DOMAIN cfgConfigs)

\* remove(n) and activate(n) ran together and both returned
C35_WitnessRace ==
    /\ AllReturned
    /\ \A t \in Callers : pc[t] = "returned"
    /\ cfgActive # NoName
    /\ cfgActive \notin DOMAIN cfgConfigs
    /\ \A n \in DOMAIN cfgFile : ~cfgFile[n].active

\* ---------------------------------------------------------------------------
\* Config document round trip (SpecRoundTrip)
\* ---------------------------------------------------------------------------

\* C36 (save/reload round trip): after a mutator has written the document,
\* reload yields the same map of descriptors (names, base_url, api_key,
\* auth_token presence and value, weight) and the same active name as were
\* in memory before.
C36_RoundTrip ==
    res # NotApplied =>
        /\ res.value.configs = arg.configs
        /\ res.value.active = arg.active

\* what the round trip does keep: names, base_url, api_key and weight
\* always, an auth_token that is Some, an active name that is in the pool
C36_Kept ==
    res # NotApplied =>
        /\ DOMAIN res.value.configs = DOMAIN arg.configs
        /\ \A n \in DOMAIN arg.configs :
              LET before == arg.configs[n]
                  after == res.value.configs[n]
              IN /\ after.base_url = before.base_url
                 /\ after.api_key = before.api_key
                 /\ after.weight = before.weight
                 /\ after.auth_token = Some(unwrap_or_default(before.auth_token))
        /\ arg.active \in DOMAIN arg.configs => res.value.active = arg.active

\* a descriptor with an api_key and no auth_token went through the round
\* trip and came back with an empty auth_token
C36_WitnessToken ==
    /\ res # NotApplied
    /\ arg.active = "A"
    /\ arg.configs["A"].api_key = Some("K")
    /\ arg.configs["A"].auth_token = None
    /\ res.value.configs["A"].auth_token = Some("")
    /\ res.value.active = "A"

\* ---------------------------------------------------------------------------
\* The two balancers of the process (SpecShared)
\* ---------------------------------------------------------------------------

\* the state the forwarder of `service` works on at its next balancer call
ViewOf(service) ==
    IF Instance(service).newer THEN lbFile ELSE Instance(service).config

\* no record_result call is running
NoRecordRunning == \A r \in Requests : pc[r] = "idle"

\* C37 (no lost balancer update): once all record calls of the claude and the
\* codex forwarder have returned, each upstream's current_failures, as either
\* forwarder sees it, is the number of failures recorded for it since its
\* last success.
C37_NoLostUpdate ==
    NoRecordRunning =>
        \A f \in Services, s \in Services, n \in Names :
            FailureCount(ViewOf(f), s, n) = streak[s][n]

\* a codex failure was recorded and the state the codex forwarder will work
\* on has lost it to a claude record
C37_WitnessErased ==
    /\ NoRecordRunning
    /\ streak["codex"]["A"] = 1
    /\ Len(recorded["r1"]) = 1 /\ Len(recorded["r2"]) = 1
    /\ FailureCount(ViewOf("codex"), "codex", "A") = 0

\* records of both forwarders that did not overlap lose nothing
C37_WitnessKept ==
    /\ NoRecordRunning
    /\ streak["codex"]["A"] = 1 /\ streak["claude"]["A"] = 1
    /\ \A f \in Services, s \in Services :
          FailureCount(ViewOf(f), s, "A") = 1

\* ---------------------------------------------------------------------------
\* Started events of a connection (SpecHub)
\* ---------------------------------------------------------------------------

\* the positions of the started messages for r among those sent to s
StartedTo(s, r) ==
    {i \in 1..Len(sub[s].sent) :
        sub[s].sent[i].event = Event("started", r, 0)}

\* a connection that has read all its events has been told of every request
\* that started (no entry leaves the table within SpecHub)
C38_NeverMissed ==
    \A s \in Subs, r \in Requests :
        (sub[s].phase = "live" /\ sub[s].rx = <<>>
         /\ \E i \in 1..Len(hubEvents) : hubEvents[i] = Event("started", r, 0))
        => StartedTo(s, r) # {}

\* a request is reported to a connection at most twice, once by the snapshot
\* and once live
C38_AtMostTwice ==
    \A s \in Subs, r \in Requests :
        /\ Cardinality(StartedTo(s, r)) <= 2
        /\ \A i, j \in StartedTo(s, r) :
              i < j => sub[s].sent[i].from = "snapshot" /\ sub[s].sent[j].from = "live"

\* C38 (one started per request): a connection receives at most one started
\* event per request_id, in the snapshot or live and never in both, and a
\* request that starts while the connection attaches is never missed.
C38_OneStarted ==
    /\ \A s \in Subs, r \in Requests : Cardinality(StartedTo(s, r)) <= 1
    /\ C38_NeverMissed

\* a request started between subscribe() and the snapshot and was reported
\* by both
C38_WitnessTwice ==
    \E s \in Subs, r \in Requests :
        /\ sub[s].phase = "live"
        /\ Cardinality(StartedTo(s, r)) = 2
        /\ Len(SelectSeq(hubEvents, LAMBDA e : e = Event("started", r, 0))) = 1

\* ---------------------------------------------------------------------------
\* Status consistency (SpecFwd)
\* ---------------------------------------------------------------------------

\* the hub's terminal events of r and the ledger's rows of r carry `status`
RecordedAs(r, status) ==
    /\ \A i \in 1..Len(hubEvents) :
          (hubEvents[i].request_id = r /\ Terminal(hubEvents[i]))
          => hubEvents[i].status_code = status
    /\ \A row \in RowsOf(r) : row.status_code = status

\* C39 (status consistency): for every request that was answered, the
\* status_code of the hub's terminal event and of the ledger row equal the
\* HTTP status the client received, whatever the outcome.
C39_StatusConsistency ==
    \A r \in Requests :
        pc[r] = "done" => RecordedAs(r, returned[r].status)

\* they agree when the upstream answered and when no upstream was configured
C39_AgreeOnResponses ==
    \A r \in Requests :
        (pc[r] = "done" /\ outcome[r].kind \in {"response", "ConfigurationError"})
        => RecordedAs(r, returned[r].status)

\* a request that timed out was answered 504 and recorded as 500
C39_WitnessTimeout ==
    \E r \in Requests :
        /\ pc[r] = "done"
        /\ outcome[r] = Failed("TimeoutError")
        /\ returned[r].status = 504
        /\ RowsOf(r) # {}
        /\ RecordedAs(r, 500)

\* a request without a configured upstream was answered and recorded as 500
C39_WitnessConfiguration ==
    \E r \in Requests :
        /\ pc[r] = "done"
        /\ outcome[r] = Failed("ConfigurationError")
        /\ returned[r].status = 500
        /\ RowsOf(r) # {}
        /\ RecordedAs(r, 500)

\* ---------------------------------------------------------------------------
\* Connectivity self-test (SpecSelfTest)
\* ---------------------------------------------------------------------------

\* p is a prefix of s
IsPrefix(p, s) == Len(p) <= Len(s) /\ p = SubSeq(s, 1, Len(p))

\* the logged body is the input when it fits and otherwise a prefix of it,
\* cut at a character boundary, followed by an ellipsis
C40_Shape ==
    res # NotApplied =>
        IF len(arg.input) <= arg.max
        THEN res.value = arg.input
        ELSE /\ Len(res.value) > 0
             /\ res.value[Len(res.value)] = Ellipsis
             /\ IsPrefix(SubSeq(res.value, 1, Len(res.value) - 1), arg.input)

\* the self-test's row has channel config-test:<name>, and the self-test
\* changes neither balancer nor hub state
C40_RowAndFrame ==
    /\ [](\A row \in logRows : row.channel = "config-test:A")
    /\ [][(\E t \in 1..MaxStamp, status \in {0, 200} : SelfTest(t, status))
            => UNCHANGED <<lbVars, hubVars>>]_vars

\* the logged body exceeds the bound by no more than the ellipsis, or is the
\* first character and the ellipsis when not even that character fits
C40_WithinEllipsis ==
    res # NotApplied =>
        \/ len(res.value) <= arg.max + Ellipsis.len_utf8
        \/ res.value = <<Head(arg.input), Ellipsis>>

\* C40 (self-test truncation): the logged body limit_string(s, max) is at
\* most max bytes long including the ellipsis, is s when s has at most max
\* bytes, and is otherwise a prefix of s cut at a character boundary followed
\* by an ellipsis.
C40_Truncation ==
    /\ res # NotApplied => len(res.value) <= arg.max
    /\ C40_Shape

\* a string longer than the bound was cut and the result is longer than the
\* bound
C40_WitnessOver ==
    /\ res # NotApplied
    /\ len(arg.input) > arg.max
    /\ len(res.value) = arg.max + Ellipsis.len_utf8
    /\ logRows # {}

\* a string within the bound was logged as it is
C40_WitnessFits ==
    /\ res # NotApplied
    /\ Len(arg.input) = MaxChars
    /\ res.value = arg.input

====
